---- MODULE Spec2Model ----
(***************************************************************************)
(* Offline-first sync reconciliation of kioku: the local entity store      *)
(* (src-tauri/src/local_db.rs, commands in lib.rs) and the sync queue with *)
(* its drain pass (src-tauri/src/db.rs, import_deck and sync_pending).     *)
(*                                                                         *)
(* The store is one SQLite file.  The lib.rs commands reach it through the *)
(* Mutex<Connection> of DbState; import_deck and sync_pending open their   *)
(* own connection.  A step of the model is therefore one SQL statement (or *)
(* a run of statements that no other connection can separate observably),  *)
(* and the drain pass is cut at its network calls and at its statements.   *)
(*                                                                         *)
(* The schema file (migrations/schema.sql) is not part of the sources: the *)
(* remote identifier column, named remote_id by local_db.rs and server_id  *)
(* by db.rs, is one field here, and deleting a deck cascades to its cards, *)
(* tags and card-tag links.  Store failures (I/O errors) are not modelled. *)
(* The remote capability answers a create request either with a typed      *)
(* response carrying a fresh identifier, or with a failure that created    *)
(* nothing.                                                                *)
(***************************************************************************)
EXTENDS Integers, Sequences, FiniteSets, TLC

\* ---------------------------------------------------------------- bounds
\* Spec: the commands of lib.rs, the offline import and the drain pass
MaxDecks == 1
MaxCards == 2
MaxTags == 1
\* SpecImport: both branches of import_deck and the drain pass
ImportDecks == 2
ImportCards == 2
ReplayCards == 2
\* SpecConcurrent: the offline import and two drain passes
ConcurrentDecks == 1
ConcurrentCards == 1
MaxTime == 1
MaxOnline == 1
MaxOnlineCards == 1

\* Identifiers are UUIDs: never reused, and a deck, a card and a tag never
\* share one.  The three kinds draw from disjoint ranges.
CardBase == 10
TagBase == 20
DeckIds == 1..MaxDecks
CardIds == {CardBase + i : i \in 1..MaxCards}
TagIds == {TagBase + i : i \in 1..MaxTags}

\* Option<i64>::None of remote_id / server_id
NoId == 0

\* the two drain passes that may be in flight; Spec runs pass 1 only
Passes == {1, 2}

EmptyMap == [x \in {} |-> NoId]

\* ------------------------------------------------------------ SyncStatus
\* variant: a string that is no status name reads Conflict
from_str_unknown_conflict(s) ==
    CASE s = "synced" -> "Synced"
      [] s = "pending_sync" -> "PendingSync"
      [] s = "local_only" -> "LocalOnly"
      [] OTHER -> "Conflict"

\* SyncStatus::from_str: every string that is no status name reads LocalOnly
from_str(s) ==
    CASE s = "synced" -> "Synced"
      [] s = "pending_sync" -> "PendingSync"
      [] s = "conflict" -> "Conflict"
      [] OTHER -> "LocalOnly"

\* SyncStatus::as_str
as_str(st) ==
    CASE st = "LocalOnly" -> "local_only"
      [] st = "Synced" -> "synced"
      [] st = "PendingSync" -> "pending_sync"
      [] st = "Conflict" -> "conflict"

VARIABLES
    decks,       \* decks table: id -> [sync_status, remote_id, origin]
    cards,       \* cards table: id -> [deck_id, remote_id, sync_status]
    tags,        \* tags table: id -> deck_id
    card_tags,   \* card_tags table: set of <<card_id, tag_id>>
    sync_queue,  \* sync_queue table: set of rows
    created,     \* how many decks, cards, tags, queue rows were ever created
    clock,       \* chrono::Utc::now()
    remote,      \* entities the remote server has created
    lock,        \* DbState mutex: the command that holds it, and its locals
    pass,        \* sync_pending invocations: locals of each drain pass
    quizzes,           \* quizzes table: set of ids
    questions,         \* questions table: id -> row
    choices,           \* choices table: id -> row
    quiz_attempts,     \* quiz_attempts table: id -> row
    question_results,  \* question_results table: set of rows
    ret,               \* what the last quiz or study command returned
    study_sessions,    \* study_sessions table: id -> row
    question_uuids     \* how many questions were ever created

\* the variables of the deck store and its sync queue
sync_vars == <<decks, cards, tags, card_tags, sync_queue, created, clock, remote, lock, pass>>

\* the quiz tables
quiz_store == <<quizzes, questions, choices, quiz_attempts, question_results>>

\* the quiz tables, the study sessions, the last return value and the
\* count of the question ids drawn
quiz_vars == <<quiz_store, ret, study_sessions, question_uuids>>

vars == <<sync_vars, quiz_vars>>

store == <<decks, cards, tags, card_tags, sync_queue>>

\* ------------------------------------------------------------- drain pass
\* The locals of sync_pending (pc, items, card_deck_ids, idx, synced_items,
\* deck_id_map, and conn: a connection to the store is open), the value it
\* last returned (result, -1 before the first
\* return), and the history the properties speak of:
\*   before       rows in sync_queue when the pass took its snapshot
\*   failed       the items whose request got no success response
\*   seen         the items phase 2 has gone through, in order
\*   req          the request phase 2 sent last
\*   body         the body of that request
\*   mutated      another operation wrote to the store since the snapshot
\*                of the pass (of the last pass, when none is running)
\*   enq          another operation added a sync_queue row since the snapshot
\*   allok        the pass that returned had no failed request
\*   after_clean  the pass began after an earlier pass, with no write to the
\*                store since that pass took its snapshot
\*   after_allok  after_clean, and the earlier pass had no failed request
NoReq == [entry |-> NoId, kind |-> "none", parent |-> NoId]

IdlePass ==
    [pc |-> "idle", items |-> <<>>, card_deck_ids |-> EmptyMap, idx |-> 0,
     synced_items |-> <<>>, deck_id_map |-> EmptyMap, conn |-> FALSE,
     result |-> -1, before |-> 0, failed |-> {}, seen |-> <<>>, req |-> NoReq,
     body |-> "none",
     mutated |-> FALSE, enq |-> FALSE, allok |-> FALSE,
     after_clean |-> FALSE, after_allok |-> FALSE]

\* a write to the store by another operation, as the passes' histories see
\* it; what a returned pass left behind is forgotten
Touch(ps, enqueues) ==
    [q \in DOMAIN ps |->
        IF ps[q].pc = "idle"
        THEN [IdlePass EXCEPT !.mutated = TRUE]
        ELSE [ps[q] EXCEPT !.mutated = TRUE, !.enq = @ \/ enqueues]]

\* Option<T>
None == <<>>
Some(x) == <<x>>

\* Result<T, String>
Ok(v) == [ok |-> TRUE, value |-> v]
Err(e) == [ok |-> FALSE, value |-> e]

\* no quiz command has returned since the quiz tables were last written
NoRet == [op |-> "none"]

\* the DbState mutex when no command holds it
FreeLock == [op |-> "free", id |-> NoId, current |-> "LocalOnly"]

\* get_pending_count: SELECT COUNT(*) FROM sync_queue
get_pending_count == Cardinality(sync_queue)

\* the quiz tables of a new store
InitQuiz ==
    /\ quizzes = {}
    /\ questions = EmptyMap
    /\ choices = EmptyMap
    /\ quiz_attempts = EmptyMap
    /\ question_results = {}
    /\ ret = NoRet
    /\ study_sessions = EmptyMap
    /\ question_uuids = 0

\* the deck tables of a new store, and no command running
InitSync ==
    /\ decks = EmptyMap
    /\ cards = EmptyMap
    /\ tags = EmptyMap
    /\ card_tags = {}
    /\ sync_queue = {}
    /\ created = [deck |-> 0, card |-> 0, tag |-> 0, queue |-> 0]
    /\ clock = 0
    /\ remote = {}
    /\ lock = FreeLock
    /\ pass = [p \in Passes |-> IdlePass]

Init == InitSync /\ InitQuiz

\* --------------------------------------------------- local_db.rs: helpers
\* variant: the child mutation leaves the deck row alone
mark_deck_pending_never(ds, deck_id) == ds

\* mark_deck_pending_if_synced: UPDATE decks SET sync_status = 'pending_sync'
\* WHERE id = ?2 AND sync_status = 'synced'
mark_deck_pending_if_synced(ds, deck_id) ==
    IF deck_id \in DOMAIN ds /\ ds[deck_id].sync_status = "synced"
    THEN [ds EXCEPT ![deck_id].sync_status = "pending_sync"]
    ELSE ds

\* ON DELETE CASCADE from decks to cards and tags, and on to card_tags
CardsOf(cs, deck_id) == {c \in DOMAIN cs : cs[c].deck_id = deck_id}
TagsOf(ts, deck_id) == {t \in DOMAIN ts : ts[t] = deck_id}
Restrict(f, S) == [x \in S |-> f[x]]

\* ----------------------------------------------------- lib.rs: deck commands
\* create_deck -> create_deck_local
create_deck_local ==
    /\ lock.op = "free"
    /\ LET id == created.deck + 1 IN
        /\ decks' = [d \in DOMAIN decks \cup {id} |->
                        IF d = id
                        THEN [sync_status |-> "local_only", remote_id |-> NoId,
                              origin |-> "local"]
                        ELSE decks[d]]
        /\ created' = [created EXCEPT !.deck = id]
    /\ pass' = Touch(pass, FALSE)
    /\ UNCHANGED <<cards, tags, card_tags, sync_queue, clock, remote, lock,
                   quiz_vars>>

\* update_deck -> update_deck_local, first statement: get_deck_local reads
\* the current row; a missing deck returns the error at once
update_deck_local_read(id) ==
    /\ lock.op = "free"
    /\ id \in DOMAIN decks
    /\ lock' = [op |-> "update_deck", id |-> id,
                current |-> from_str(decks[id].sync_status)]
    /\ UNCHANGED <<decks, cards, tags, card_tags, sync_queue, created, clock, remote, pass,
                   quiz_vars>>

\* the status update_deck_local writes back
new_status(current) ==
    IF current = "Synced" THEN "PendingSync" ELSE current

\* update_deck_local, second statement: UPDATE decks SET ..., sync_status = ?5
update_deck_local_write ==
    /\ lock.op = "update_deck"
    /\ decks' = IF lock.id \in DOMAIN decks
                THEN [decks EXCEPT ![lock.id].sync_status = as_str(new_status(lock.current))]
                ELSE decks
    /\ lock' = FreeLock
    /\ pass' = Touch(pass, FALSE)
    /\ UNCHANGED <<cards, tags, card_tags, sync_queue, created, clock, remote,
                   quiz_vars>>

\* variant: the connection enforces no foreign key
foreign_keys_off == FALSE

\* init_database: PRAGMA foreign_keys = ON
foreign_keys == TRUE

\* the schema's ON DELETE CASCADE from decks to cards and tags: the rows that
\* go with a deck
cascade_cards(deck_id) ==
    IF foreign_keys THEN CardsOf(cards, deck_id) ELSE {}

cascade_tags(deck_id) ==
    IF foreign_keys THEN TagsOf(tags, deck_id) ELSE {}

\* get_card_local: SELECT ... FROM cards WHERE id = ?1 AND deck_id = ?2
get_card_local(cs, id, deck_id) ==
    IF id \in DOMAIN cs /\ cs[id].deck_id = deck_id
    THEN Ok(cs[id])
    ELSE Err("Card not found")

\* get_tags_for_deck_local: SELECT ... FROM tags WHERE deck_id = ?1
get_tags_for_deck_local(ts, deck_id) == TagsOf(ts, deck_id)

\* delete_deck -> delete_deck_local: DELETE FROM decks, cascading
delete_deck_local(id) ==
    /\ lock.op = "free"
    /\ id \in DOMAIN decks
    /\ decks' = Restrict(decks, DOMAIN decks \ {id})
    /\ cards' = Restrict(cards, DOMAIN cards \ cascade_cards(id))
    /\ tags' = Restrict(tags, DOMAIN tags \ cascade_tags(id))
    /\ card_tags' = {ct \in card_tags :
                        /\ ct[1] \notin cascade_cards(id)
                        /\ ct[2] \notin cascade_tags(id)}
    /\ pass' = Touch(pass, FALSE)
    /\ UNCHANGED <<sync_queue, created, clock, remote, lock,
                   quiz_vars>>

\* ----------------------------------------------------- lib.rs: card commands
\* create_card -> create_card_local: INSERT INTO cards (the foreign key wants
\* the deck to exist), then mark_deck_pending_if_synced
create_card_local(deck_id) ==
    /\ lock.op = "free"
    /\ deck_id \in DOMAIN decks
    /\ LET id == CardBase + created.card + 1 IN
        /\ cards' = [c \in DOMAIN cards \cup {id} |->
                        IF c = id
                        THEN [deck_id |-> deck_id, remote_id |-> NoId,
                              sync_status |-> "local_only"]
                        ELSE cards[c]]
        /\ created' = [created EXCEPT !.card = @ + 1]
    /\ decks' = mark_deck_pending_if_synced(decks, deck_id)
    /\ pass' = Touch(pass, FALSE)
    /\ UNCHANGED <<tags, card_tags, sync_queue, clock, remote, lock,
                   quiz_vars>>

\* update_card -> update_card_local: UPDATE cards ... WHERE id AND deck_id
\* (the card's content is not part of the state), then
\* mark_deck_pending_if_synced(deck_id) whether or not a row matched
update_card_local(id, deck_id) ==
    /\ lock.op = "free"
    /\ deck_id \in DOMAIN decks
    /\ decks' = mark_deck_pending_if_synced(decks, deck_id)
    /\ pass' = Touch(pass, FALSE)
    /\ UNCHANGED <<cards, tags, card_tags, sync_queue, created, clock, remote, lock,
                   quiz_vars>>

\* delete_card -> delete_card_local: DELETE FROM cards WHERE id AND deck_id,
\* cascading to card_tags, then mark_deck_pending_if_synced(deck_id) whether
\* or not a row matched
delete_card_local(id, deck_id) ==
    /\ lock.op = "free"
    /\ LET hit == id \in DOMAIN cards /\ cards[id].deck_id = deck_id IN
        /\ cards' = IF hit THEN Restrict(cards, DOMAIN cards \ {id}) ELSE cards
        /\ card_tags' = IF hit THEN {ct \in card_tags : ct[1] # id} ELSE card_tags
    /\ decks' = mark_deck_pending_if_synced(decks, deck_id)
    /\ pass' = Touch(pass, FALSE)
    /\ UNCHANGED <<tags, sync_queue, created, clock, remote, lock,
                   quiz_vars>>

\* ------------------------------------------------------ lib.rs: tag commands
\* create_tag -> create_tag_local
create_tag_local(deck_id) ==
    /\ lock.op = "free"
    /\ deck_id \in DOMAIN decks
    /\ LET id == TagBase + created.tag + 1 IN
        /\ tags' = [t \in DOMAIN tags \cup {id} |-> IF t = id THEN deck_id ELSE tags[t]]
        /\ created' = [created EXCEPT !.tag = @ + 1]
    /\ decks' = mark_deck_pending_if_synced(decks, deck_id)
    /\ pass' = Touch(pass, FALSE)
    /\ UNCHANGED <<cards, card_tags, sync_queue, clock, remote, lock,
                   quiz_vars>>

\* delete_tag -> delete_tag_local: DELETE FROM tags WHERE id AND deck_id,
\* then mark_deck_pending_if_synced(deck_id) whether or not a row matched
delete_tag_local(deck_id, id) ==
    /\ lock.op = "free"
    /\ LET hit == id \in DOMAIN tags /\ tags[id] = deck_id IN
        /\ tags' = IF hit THEN Restrict(tags, DOMAIN tags \ {id}) ELSE tags
        /\ card_tags' = IF hit THEN {ct \in card_tags : ct[2] # id} ELSE card_tags
    /\ decks' = mark_deck_pending_if_synced(decks, deck_id)
    /\ pass' = Touch(pass, FALSE)
    /\ UNCHANGED <<cards, sync_queue, created, clock, remote, lock,
                   quiz_vars>>

\* add_tag_to_card -> add_tag_to_card_local: INSERT OR IGNORE INTO card_tags
\* (card and tag must exist), then mark_deck_pending_if_synced(deck_id); the
\* deck_id is the caller's, it is not compared with the card's deck
add_tag_to_card_local(deck_id, card_id, tag_id) ==
    /\ lock.op = "free"
    /\ card_id \in DOMAIN cards
    /\ tag_id \in DOMAIN tags
    /\ card_tags' = card_tags \cup {<<card_id, tag_id>>}
    /\ decks' = mark_deck_pending_if_synced(decks, deck_id)
    /\ pass' = Touch(pass, FALSE)
    /\ UNCHANGED <<cards, tags, sync_queue, created, clock, remote, lock,
                   quiz_vars>>

\* remove_tag_from_card -> remove_tag_from_card_local: DELETE FROM card_tags,
\* then mark_deck_pending_if_synced(deck_id) whether or not a row matched
remove_tag_from_card_local(deck_id, card_id, tag_id) ==
    /\ lock.op = "free"
    /\ card_tags' = card_tags \ {<<card_id, tag_id>>}
    /\ decks' = mark_deck_pending_if_synced(decks, deck_id)
    /\ pass' = Touch(pass, FALSE)
    /\ UNCHANGED <<cards, tags, sync_queue, created, clock, remote, lock,
                   quiz_vars>>

\* ------------------------------------------------------ the remote server
\* the identifier the server assigns to the next entity it creates
fresh_remote_id(rs) == Cardinality(rs) + 1

\* the server's record of a created entity: its kind, its identifier, the
\* remote deck a card was posted to, and (history) the sync_queue row whose
\* replay created it, NoId when it was posted directly
RemoteEntity(kind, id, parent, entry) ==
    [kind |-> kind, id |-> id, parent |-> parent, entry |-> entry]

\* ------------------------------------------------------- db.rs: import_deck
\* import_deck, server reachable: POST /decks succeeds, then one
\* POST /decks/{id}/cards per card, each of which may fail; nothing is
\* written to the local store.  ok is the number of cards the server took.
import_deck_online(n, ok) ==
    /\ ok <= n
    /\ LET deck_id == fresh_remote_id(remote) IN
        remote' = remote
            \cup {RemoteEntity("deck", deck_id, NoId, NoId)}
            \cup {RemoteEntity("card", deck_id + i, deck_id, NoId) : i \in 1..ok}
    /\ UNCHANGED <<decks, cards, tags, card_tags, sync_queue, created, clock, lock, pass,
                   quiz_vars>>

\* import_deck, POST /decks failed: the deck and its n cards are inserted
\* with sync_status 'pending', each with a 'create' row in sync_queue; every
\* row carries the one timestamp `now` taken at the start of the command
import_deck_offline(n, now) ==
    /\ now >= clock
    /\ clock' = now
    /\ LET deck_id == created.deck + 1
           card_id(i) == CardBase + created.card + i
           qid == created.queue + 1
       IN
        /\ decks' = [d \in DOMAIN decks \cup {deck_id} |->
                        IF d = deck_id
                        THEN [sync_status |-> "pending", remote_id |-> NoId,
                              origin |-> "import"]
                        ELSE decks[d]]
        /\ cards' = [c \in DOMAIN cards \cup {card_id(i) : i \in 1..n} |->
                        IF c \in DOMAIN cards
                        THEN cards[c]
                        ELSE [deck_id |-> deck_id, remote_id |-> NoId,
                              sync_status |-> "pending"]]
        /\ sync_queue' = sync_queue
            \cup {[id |-> qid, entity_type |-> "deck", entity_id |-> deck_id,
                   operation |-> "create", payload |-> "json", created_at |-> now]}
            \cup {[id |-> qid + i, entity_type |-> "card", entity_id |-> card_id(i),
                   operation |-> "create", payload |-> "json", created_at |-> now]
                  : i \in 1..n}
        /\ created' = [created EXCEPT !.deck = @ + 1, !.card = @ + n, !.queue = @ + 1 + n]
    /\ pass' = Touch(pass, TRUE)
    /\ UNCHANGED <<tags, card_tags, remote, lock,
                   quiz_vars>>

\* ------------------------------------------------------ db.rs: sync_pending
\* lexicographic rank of the entity_type strings: 'card' < 'deck'
type_rank(t) == IF t = "deck" THEN 2 ELSE 1

\* variant: ORDER BY entity_type DESC alone
order_by_type(a, b) ==
    type_rank(a.entity_type) >= type_rank(b.entity_type)

\* ORDER BY entity_type DESC, created_at ASC: row a may come before row b
order_by(a, b) ==
    \/ type_rank(a.entity_type) > type_rank(b.entity_type)
    \/ /\ a.entity_type = b.entity_type
       /\ a.created_at <= b.created_at

\* the result sets the SELECT over sync_queue may return: every order of the
\* rows that ORDER BY allows (rows with equal keys come in any order)
RECURSIVE query_sync_queue(_)
query_sync_queue(rows) ==
    IF rows = {} THEN {<<>>}
    ELSE UNION {{<<a>> \o rest : rest \in query_sync_queue(rows \ {a})} :
                    a \in {x \in rows : \A y \in rows : order_by(x, y)}}

\* index of the first card item at or after position i, Len + 1 if none
next_card(items, i) ==
    LET js == {j \in i..Len(items) : items[j].entity_type = "card"} IN
    IF js = {} THEN Len(items) + 1
    ELSE CHOOSE j \in js : \A k \in js : j <= k

\* variant: the count of the requests sent, failed ones included
finish_counting_requests(ps) ==
    [IdlePass EXCEPT !.result = Len(ps.synced_items) + Cardinality(ps.failed),
                     !.allok = ps.failed = {}, !.mutated = ps.mutated]

\* phase 3 with nothing left to do: Ok(synced_count)
finish(ps) ==
    [IdlePass EXCEPT !.result = Len(ps.synced_items), !.allok = ps.failed = {},
                     !.mutated = ps.mutated]

\* variant: the command returns after phase 2
to_phase3_return(ps) == finish(ps)

\* phase 2 is over: phase 3 opens its connection and walks synced_items
to_phase3(ps) ==
    IF ps.synced_items = <<>> THEN finish(ps)
    ELSE [ps EXCEPT !.pc = "update", !.idx = 1, !.items = <<>>, !.seen = <<>>,
                    !.card_deck_ids = EmptyMap, !.deck_id_map = EmptyMap,
                    !.conn = TRUE]

\* variant: the connection of phase 1 lives on into phase 2
to_phase2_conn_kept(ps) ==
    IF ps.items = <<>> THEN to_phase3(ps)
    ELSE [ps EXCEPT !.pc = "net", !.idx = 1]

\* phase 1 is over, its connection is dropped: phase 2 walks items
to_phase2(ps) ==
    IF ps.items = <<>> THEN to_phase3([ps EXCEPT !.conn = FALSE])
    ELSE [ps EXCEPT !.pc = "net", !.idx = 1, !.conn = FALSE]

\* phase 1, first statement: the SELECT over sync_queue
sync_pending_query(p) ==
    /\ pass[p].pc = "idle"
    /\ \E items \in query_sync_queue(sync_queue) :
        LET ps == [IdlePass EXCEPT
                     !.conn = TRUE,
                     !.items = items,
                     !.before = Cardinality(sync_queue),
                     !.after_clean = pass[p].result >= 0 /\ ~pass[p].mutated,
                     !.after_allok = /\ pass[p].result >= 0
                                     /\ ~pass[p].mutated
                                     /\ pass[p].allok]
            first == next_card(items, 1)
        IN pass' = [pass EXCEPT ![p] =
                IF first <= Len(items)
                THEN [ps EXCEPT !.pc = "prefetch", !.idx = first]
                ELSE to_phase2(ps)]
    /\ UNCHANGED <<decks, cards, tags, card_tags, sync_queue, created, clock, remote, lock,
                   quiz_vars>>

\* SELECT c.deck_id, d.server_id FROM cards c LEFT JOIN decks d ... WHERE c.id
card_deck_row(card_id) ==
    <<cards[card_id].deck_id,
      IF cards[card_id].deck_id \in DOMAIN decks
      THEN decks[cards[card_id].deck_id].remote_id
      ELSE NoId>>

\* phase 1, one more statement per card item: its deck and that deck's
\* server id; a card that is gone gets no entry in card_deck_ids
sync_pending_prefetch(p) ==
    /\ pass[p].pc = "prefetch"
    /\ LET ps == pass[p]
           card_id == ps.items[ps.idx].entity_id
           ids == IF card_id \in DOMAIN cards
                  THEN [c \in DOMAIN ps.card_deck_ids \cup {card_id} |->
                            IF c = card_id THEN card_deck_row(card_id)
                            ELSE ps.card_deck_ids[c]]
                  ELSE ps.card_deck_ids
           nxt == next_card(ps.items, ps.idx + 1)
           ps1 == [ps EXCEPT !.card_deck_ids = ids]
       IN pass' = [pass EXCEPT ![p] =
                IF nxt <= Len(ps.items)
                THEN [ps1 EXCEPT !.idx = nxt]
                ELSE to_phase2(ps1)]
    /\ UNCHANGED <<decks, cards, tags, card_tags, sync_queue, created, clock, remote, lock,
                   quiz_vars>>

\* variant: the prefetched server_id alone
server_deck_id_prefetched(ps, card_id) ==
    IF card_id \in DOMAIN ps.card_deck_ids
    THEN ps.card_deck_ids[card_id][2]
    ELSE NoId

\* the server deck id a card item is posted to: the id mapped in this pass
\* first, the prefetched server_id otherwise; NoId if there is neither
server_deck_id(ps, card_id) ==
    IF card_id \in DOMAIN ps.card_deck_ids
    THEN LET local_id == ps.card_deck_ids[card_id][1]
             existing_server_id == ps.card_deck_ids[card_id][2]
         IN IF local_id \in DOMAIN ps.deck_id_map
            THEN ps.deck_id_map[local_id]
            ELSE existing_server_id
    ELSE NoId

\* the loop goes on to the next item, or phase 2 ends
next_item(ps) ==
    IF ps.idx < Len(ps.items)
    THEN [ps EXCEPT !.idx = @ + 1]
    ELSE to_phase3(ps)

\* variant: a response that is no success ends the loop
on_failure_break(ps, item) ==
    [ps EXCEPT !.failed = @ \cup {item}, !.idx = Len(ps.items)]

\* the response of a request was no success: nothing is recorded for the item
on_failure(ps, item) ==
    [ps EXCEPT !.failed = @ \cup {item}]

\* serde_json::from_str on the payload of a queue row, for the type of its
\* entity: the data the row was queued with, or an error
serde_json_from_str(payload) ==
    IF payload = "json" THEN Ok("data") ELSE Err("expected value")

\* unwrap_or_default() on the deck's Value, unwrap_or(CardImport { .. }) on
\* the card: an error becomes the default value (null, or a card of empty
\* TEXT sides)
unwrap_or_default(r) == IF r.ok THEN r.value ELSE "default"

\* phase 2, a ("deck", "create") item: POST /decks; on success the remote id
\* goes to deck_id_map and the item to synced_items
sync_pending_deck(p, ok) ==
    /\ pass[p].pc = "net"
    /\ LET ps == pass[p]
           item == ps.items[ps.idx]
           id == fresh_remote_id(remote)
           sent == [ps EXCEPT !.seen = Append(@, item),
                              !.req = [entry |-> item.id, kind |-> "deck",
                                       parent |-> NoId],
                              !.body = unwrap_or_default(
                                           serde_json_from_str(item.payload))]
       IN
        /\ item.entity_type = "deck"
        /\ item.operation = "create"
        /\ item.payload # "null"
        /\ IF ok
           THEN /\ remote' = remote \cup {RemoteEntity("deck", id, NoId, item.id)}
                /\ pass' = [pass EXCEPT ![p] = next_item(
                     [sent EXCEPT
                        !.deck_id_map = [d \in DOMAIN @ \cup {item.entity_id} |->
                                            IF d = item.entity_id THEN id ELSE @[d]],
                        !.synced_items = Append(@, <<item.id, item.entity_id, id>>)])]
           ELSE /\ remote' = remote
                /\ pass' = [pass EXCEPT ![p] = next_item(on_failure(sent, item))]
    /\ UNCHANGED <<decks, cards, tags, card_tags, sync_queue, created, clock, lock,
                   quiz_vars>>

\* phase 2, a ("card", "create") item whose deck has a server id:
\* POST /decks/{server_deck_id}/cards; on success the item goes to
\* synced_items
sync_pending_card(p, ok) ==
    /\ pass[p].pc = "net"
    /\ LET ps == pass[p]
           item == ps.items[ps.idx]
           parent == server_deck_id(ps, item.entity_id)
           id == fresh_remote_id(remote)
           sent == [ps EXCEPT !.seen = Append(@, item),
                              !.req = [entry |-> item.id, kind |-> "card",
                                       parent |-> parent],
                              !.body = unwrap_or_default(
                                           serde_json_from_str(item.payload))]
       IN
        /\ item.entity_type = "card"
        /\ item.operation = "create"
        /\ item.payload # "null"
        /\ parent # NoId
        /\ IF ok
           THEN /\ remote' = remote \cup {RemoteEntity("card", id, parent, item.id)}
                /\ pass' = [pass EXCEPT ![p] = next_item(
                     [sent EXCEPT
                        !.synced_items = Append(@, <<item.id, item.entity_id, id>>)])]
           ELSE /\ remote' = remote
                /\ pass' = [pass EXCEPT ![p] = next_item(on_failure(sent, item))]
    /\ UNCHANGED <<decks, cards, tags, card_tags, sync_queue, created, clock, lock,
                   quiz_vars>>

\* variant: the item is recorded as synced, without a server id
on_skip_synced(ps, item) ==
    [ps EXCEPT !.seen = Append(@, item),
               !.synced_items = Append(@, <<item.id, item.entity_id, NoId>>)]

\* no request is sent for the item and nothing is recorded for it
on_skip(ps, item) ==
    [ps EXCEPT !.seen = Append(@, item)]

\* phase 2, an item that sends nothing: a card whose deck has no server id,
\* an item without payload, or any other (entity_type, operation)
sync_pending_skip(p) ==
    /\ pass[p].pc = "net"
    /\ LET ps == pass[p]
           item == ps.items[ps.idx]
       IN
        /\ \/ item.payload = "null"
           \/ item.operation # "create"
           \/ item.entity_type \notin {"deck", "card"}
           \/ /\ item.entity_type = "card"
              /\ server_deck_id(ps, item.entity_id) = NoId
        /\ pass' = [pass EXCEPT ![p] = next_item(on_skip(ps, item))]
    /\ UNCHANGED <<decks, cards, tags, card_tags, sync_queue, created, clock, remote, lock,
                   quiz_vars>>

\* variant: the UPDATE without its WHERE clause
set_synced_everywhere(rows, entity_id, sid) ==
    [e \in DOMAIN rows |->
        [rows[e] EXCEPT !.remote_id = sid, !.sync_status = "synced"]]

\* UPDATE ... SET server_id = ?1, sync_status = 'synced' WHERE id = ?2
set_synced(rows, entity_id, sid) ==
    IF entity_id \in DOMAIN rows
    THEN [rows EXCEPT ![entity_id].remote_id = sid,
                      ![entity_id].sync_status = "synced"]
    ELSE rows

\* phase 3, first statement for a synced item: UPDATE decks SET server_id,
\* sync_status = 'synced' WHERE id; if no deck row matched, the same UPDATE
\* on cards
sync_pending_update(p) ==
    /\ pass[p].pc = "update"
    /\ LET ps == pass[p]
           entity_id == ps.synced_items[ps.idx][2]
           sid == ps.synced_items[ps.idx][3]
       IN
        /\ decks' = set_synced(decks, entity_id, sid)
        /\ cards' = IF entity_id \notin DOMAIN decks
                    THEN set_synced(cards, entity_id, sid)
                    ELSE cards
        /\ pass' = [pass EXCEPT ![p].pc = "delete"]
    /\ UNCHANGED <<tags, card_tags, sync_queue, created, clock, remote, lock,
                   quiz_vars>>

\* variant: the row stays
keep_in_sync_queue(rows, queue_id) == rows

\* what DELETE FROM sync_queue WHERE id = ?1 leaves
delete_from_sync_queue(rows, queue_id) == {r \in rows : r.id # queue_id}

\* phase 3, second statement for a synced item: DELETE FROM sync_queue; after
\* the last item the command returns Ok(synced_count)
sync_pending_delete(p) ==
    /\ pass[p].pc = "delete"
    /\ LET ps == pass[p]
           queue_id == ps.synced_items[ps.idx][1]
       IN
        /\ sync_queue' = delete_from_sync_queue(sync_queue, queue_id)
        /\ pass' = [pass EXCEPT ![p] =
                IF ps.idx < Len(ps.synced_items)
                THEN [ps EXCEPT !.pc = "update", !.idx = @ + 1]
                ELSE finish(ps)]
    /\ UNCHANGED <<decks, cards, tags, card_tags, created, clock, remote, lock,
                   quiz_vars>>

\* ------------------------------------------------------------ specification
\* the deck, card and tag commands of lib.rs, serialised by the DbState
\* mutex, while fewer than max_decks, max_cards, max_tags were created
LocalCommand(max_decks, max_cards, max_tags) ==
    \/ created.deck < max_decks /\ create_deck_local
    \/ \E id \in DeckIds : update_deck_local_read(id)
    \/ update_deck_local_write
    \/ \E id \in DeckIds : delete_deck_local(id)
    \/ created.card < max_cards /\ \E deck_id \in DeckIds : create_card_local(deck_id)
    \/ \E id \in CardIds, deck_id \in DeckIds : update_card_local(id, deck_id)
    \/ \E id \in CardIds, deck_id \in DeckIds : delete_card_local(id, deck_id)
    \/ created.tag < max_tags /\ \E deck_id \in DeckIds : create_tag_local(deck_id)
    \/ \E deck_id \in DeckIds, id \in TagIds : delete_tag_local(deck_id, id)
    \/ \E deck_id \in DeckIds, card_id \in CardIds, tag_id \in TagIds :
            add_tag_to_card_local(deck_id, card_id, tag_id)
    \/ \E deck_id \in DeckIds, card_id \in CardIds, tag_id \in TagIds :
            remove_tag_from_card_local(deck_id, card_id, tag_id)

\* the timestamps a command may read: the clock never runs backwards, and
\* time is counted from the first row ever queued
Now == IF created.queue = 0 THEN {0} ELSE clock..MaxTime

\* import_deck while the server is unreachable
ImportOffline(max_decks, max_cards) ==
    /\ created.deck < max_decks
    /\ \E n \in 0..(max_cards - created.card), now \in Now :
            import_deck_offline(n, now)

\* import_deck while the server is reachable
ImportOnline ==
    /\ Cardinality({r \in remote : r.entry = NoId /\ r.kind = "deck"}) < MaxOnline
    /\ \E n \in 0..MaxOnlineCards, ok \in 0..MaxOnlineCards : import_deck_online(n, ok)

\* one step of the drain pass p
Drain(p) ==
    \/ sync_pending_query(p)
    \/ sync_pending_prefetch(p)
    \/ \E ok \in BOOLEAN : sync_pending_deck(p, ok)
    \/ \E ok \in BOOLEAN : sync_pending_card(p, ok)
    \/ sync_pending_skip(p)
    \/ sync_pending_update(p)
    \/ sync_pending_delete(p)

\* The entity store and the sync queue: the commands of lib.rs, the offline
\* import and drain passes invoked one after the other.  (The online branch
\* of import_deck writes nothing to the store; it is part of SpecImport.)
Next ==
    \/ LocalCommand(MaxDecks, MaxCards, MaxTags)
    \/ ImportOffline(MaxDecks, MaxCards)
    \/ Drain(1)

Spec == Init /\ [][Next]_vars

\* The sync queue alone: imports, online and offline, and drain passes
\* invoked one after the other.
NextImport ==
    \/ ImportOffline(ImportDecks, ImportCards)
    \/ ImportOnline
    \/ Drain(1)

SpecImport == Init /\ [][NextImport]_vars

\* The replay of a queue whose rows may be damaged: the store holds one
\* deck imported offline with up to ReplayCards cards, and the payload of
\* each of its queue rows is either the JSON it was queued with or text
\* that does not parse; drain passes are invoked one after the other.
Payloads == {"json", "corrupt"}

InitReplay ==
    /\ InitQuiz
    /\ \E n \in 0..ReplayCards : \E text \in [1..(n + 1) -> Payloads] :
        /\ decks = [d \in {1} |-> [sync_status |-> "pending", remote_id |-> NoId,
                                   origin |-> "import"]]
        /\ cards = [c \in {CardBase + i : i \in 1..n} |->
                        [deck_id |-> 1, remote_id |-> NoId,
                         sync_status |-> "pending"]]
        /\ sync_queue =
              {[id |-> 1, entity_type |-> "deck", entity_id |-> 1,
                operation |-> "create", payload |-> text[1], created_at |-> 0]}
              \cup {[id |-> 1 + i, entity_type |-> "card",
                     entity_id |-> CardBase + i, operation |-> "create",
                     payload |-> text[1 + i], created_at |-> 0] : i \in 1..n}
        /\ created = [deck |-> 1, card |-> n, tag |-> 0, queue |-> 1 + n]
    /\ tags = EmptyMap
    /\ card_tags = {}
    /\ clock = 0
    /\ remote = {}
    /\ lock = FreeLock
    /\ pass = Touch([p \in Passes |-> IdlePass], TRUE)

NextReplay == Drain(1)

SpecReplay == InitReplay /\ [][NextReplay]_vars

\* Two invocations of sync_pending in flight at once: sync_pending is an
\* async command that takes no lock, so the steps of the two passes
\* interleave freely, with the offline import before or between them.
NextConcurrent ==
    \/ ImportOffline(ConcurrentDecks, ConcurrentCards)
    \/ Drain(1)
    \/ Drain(2)

SpecConcurrent == Init /\ [][NextConcurrent]_vars

\* one step of the drain pass p while the server accepts every request
DrainAccepted(p) ==
    \/ sync_pending_query(p)
    \/ sync_pending_prefetch(p)
    \/ sync_pending_deck(p, TRUE)
    \/ sync_pending_card(p, TRUE)
    \/ sync_pending_skip(p)
    \/ sync_pending_update(p)
    \/ sync_pending_delete(p)

\* The commands of Spec with a server that accepts every request and a
\* drain that is invoked again and again: a pass that can take a step
\* takes it, and a pass that has returned is followed by another.
NextAccepting ==
    \/ LocalCommand(MaxDecks, MaxCards, MaxTags)
    \/ ImportOffline(MaxDecks, MaxCards)
    \/ DrainAccepted(1)

SpecAccepting == Init /\ [][NextAccepting]_vars /\ WF_vars(DrainAccepted(1))

\* ------------------------------------------------------------- properties
\* pass p returns on this step
Returned(p) ==
    /\ pass'[p].pc = "idle"
    /\ pass'[p].result >= 0
    /\ pass'[p] # pass[p]

\* pass p handles the item at idx of phase 2 on this step
NetStep(p) ==
    /\ pass[p].pc = "net"
    /\ pass'[p].idx # pass[p].idx \/ pass'[p].pc # "net"

\* a command that mutates a child of the deck it names
ChildMutation(deck_id) ==
    \/ create_card_local(deck_id)
    \/ \E id \in CardIds : update_card_local(id, deck_id)
    \/ \E id \in CardIds : delete_card_local(id, deck_id)
    \/ create_tag_local(deck_id)
    \/ \E id \in TagIds : delete_tag_local(deck_id, id)
    \/ \E card_id \in CardIds, tag_id \in TagIds :
            add_tag_to_card_local(deck_id, card_id, tag_id)
    \/ \E card_id \in CardIds, tag_id \in TagIds :
            remove_tag_from_card_local(deck_id, card_id, tag_id)

Demoted(status) == IF status = "Synced" THEN "PendingSync" ELSE status

EmptyDrain ==
    (sync_queue = {} /\ sync_pending_query(1)) =>
        /\ pass'[1].pc = "idle"
        /\ pass'[1].result = 0
        /\ UNCHANGED store

\* C3 as stated: a drain of an empty queue returns 0 and changes nothing, and
\* a drain that follows a drain with no write to the store in between
\* returns 0.
C3_SecondDrainReturnsZero ==
    [][/\ EmptyDrain
       /\ (Returned(1) /\ pass[1].after_clean) => pass'[1].result = 0]_vars

\* C3: a drain of an empty queue returns 0 and changes nothing, and a drain
\* that follows a drain in which no request failed, with no write to the
\* store in between, returns 0.
C3_DrainAfterCleanDrainReturnsZero ==
    [][/\ EmptyDrain
       /\ (Returned(1) /\ pass[1].after_allok) => pass'[1].result = 0]_vars

\* the second of two such drains is in phase 2 with a row to go through
C3_Witness ==
    /\ pass[1].pc = "net"
    /\ pass[1].after_allok
    /\ ~pass[1].mutated

\* C4: a card row whose deck got its server id earlier in the same pass is
\* not skipped: its request goes to the card collection of that server id,
\* and what the server creates belongs to that deck.
C4_CardResolvedInSamePass ==
    [][LET ps == pass[1]
           item == ps.items[ps.idx]
           local_id == ps.card_deck_ids[item.entity_id][1]
       IN (/\ NetStep(1)
           /\ item.entity_type = "card"
           /\ item.entity_id \in DOMAIN ps.card_deck_ids
           /\ ps.card_deck_ids[item.entity_id][2] = NoId
           /\ local_id \in DOMAIN ps.deck_id_map)
          => /\ pass'[1].req = [entry |-> item.id, kind |-> "card",
                                parent |-> ps.deck_id_map[local_id]]
             /\ \A r \in remote' \ remote :
                    r = RemoteEntity("card", r.id, ps.deck_id_map[local_id], item.id)]_vars

\* deck and card were synced in one pass, the card under the deck's new id
C4_Witness ==
    /\ pass[1].pc = "update"
    /\ Len(pass[1].synced_items) >= 2
    /\ pass[1].req.kind = "card"
    /\ \E r \in remote, d \in remote :
        /\ r.kind = "card" /\ r.entry = pass[1].req.entry
        /\ d.kind = "deck" /\ d.entry # NoId
        /\ r.parent = d.id /\ pass[1].req.parent = d.id
        /\ pass[1].synced_items[1][3] = d.id

\* C5: a deck created by create_deck_local (LocalOnly) with a card added by
\* create_card_local is, after one drain in which no request failed and
\* during which nothing else wrote to the store, Synced with a remote id,
\* and its cards have remote ids.
C5_LocalDeckSyncedByOneDrain ==
    [][(/\ Returned(1)
        /\ pass[1].failed = {}
        /\ pass[1].pc = "idle" \/ ~pass[1].mutated)
       => \A d \in DOMAIN decks :
            (/\ decks[d].origin = "local"
             /\ from_str(decks[d].sync_status) = "LocalOnly"
             /\ CardsOf(cards, d) # {})
            => /\ decks'[d].sync_status = "synced"
               /\ decks'[d].remote_id # NoId
               /\ \A c \in CardsOf(cards, d) : cards'[c].remote_id # NoId]_vars

\* C6: when a pass returns, every entity whose create row it replayed with
\* success (and that still exists) has status Synced and the remote id of the
\* server's response, and the row is gone from sync_queue.
C6_SyncedAtEndOfPass ==
    [][Returned(1) =>
        \A i \in 1..Len(pass[1].synced_items) :
            LET queue_id == pass[1].synced_items[i][1]
                entity_id == pass[1].synced_items[i][2]
                server_id == pass[1].synced_items[i][3]
            IN /\ entity_id \in DOMAIN decks' =>
                    /\ decks'[entity_id].sync_status = "synced"
                    /\ decks'[entity_id].remote_id = server_id
               /\ entity_id \in DOMAIN cards' =>
                    /\ cards'[entity_id].sync_status = "synced"
                    /\ cards'[entity_id].remote_id = server_id
               /\ \A r \in sync_queue' : r.id # queue_id]_vars

\* C7: a pass returns the number of rows it replayed with success, and if no
\* row was queued since its snapshot, get_pending_count after the pass is
\* the count at the snapshot minus the returned number.
C7_PendingCountDropsByResult ==
    [][Returned(1) =>
        /\ pass'[1].result = Len(pass[1].synced_items)
        /\ ~pass[1].enq =>
            Cardinality(sync_queue') = pass[1].before - pass'[1].result]_vars

\* a pass has returned a positive count and left rows pending
C7_Witness ==
    /\ pass[1].pc = "idle"
    /\ pass[1].result >= 1
    /\ get_pending_count >= 1

\* C8: phase 2 goes through every deck row before any card row, and through
\* the rows of one entity type in the order of created_at.
C8_DecksFirstThenFifo ==
    \A i, j \in 1..Len(pass[1].seen) :
        i < j =>
            LET a == pass[1].seen[i]
                b == pass[1].seen[j]
            IN /\ ~(a.entity_type = "card" /\ b.entity_type = "deck")
               /\ a.entity_type = b.entity_type => a.created_at <= b.created_at

\* phase 2 went through two deck rows of different created_at and then
\* through a card row older than the second deck row
C8_Witness ==
    /\ Len(pass[1].seen) >= 3
    /\ pass[1].seen[1].entity_type = "deck"
    /\ pass[1].seen[2].entity_type = "deck"
    /\ pass[1].seen[1].created_at < pass[1].seen[2].created_at
    /\ pass[1].seen[3].entity_type = "card"
    /\ pass[1].seen[3].created_at < pass[1].seen[2].created_at

\* C9: a request without success leaves sync_queue as it is and the pass
\* goes on with the next item; phase 2 ends only at the last item; when the
\* pass returns, every row whose request failed is still in sync_queue,
\* unchanged, and the pass returns a count.
C9_FailureIsNotFatal ==
    [][/\ (\E item \in pass'[1].failed : item \notin pass[1].failed) =>
            /\ UNCHANGED store
            /\ pass[1].idx < Len(pass[1].items) =>
                    /\ pass'[1].pc = "net"
                    /\ pass'[1].idx = pass[1].idx + 1
       /\ (pass[1].pc = "net" /\ pass'[1].pc # "net") =>
            pass[1].idx = Len(pass[1].items)
       /\ Returned(1) =>
            /\ pass[1].failed \subseteq sync_queue'
            /\ pass'[1].result >= 0]_vars

\* the request for the second item failed and phase 2 is at the third
C9_Witness ==
    /\ pass[1].pc = "net"
    /\ pass[1].idx = 3
    /\ pass[1].items[2] \in pass[1].failed
    /\ Len(pass[1].seen) = 2

\* C10: a deck has a remote id exactly when its status is Synced or
\* PendingSync, and no step clears or changes a remote id a deck has.
C10_RemoteIdIffSynced ==
    [][\A d \in DOMAIN decks' :
        /\ decks'[d].remote_id # NoId <=>
                from_str(decks'[d].sync_status) \in {"Synced", "PendingSync"}
        /\ (d \in DOMAIN decks /\ decks[d].remote_id # NoId) =>
                decks'[d].remote_id = decks[d].remote_id]_vars

C22_DeleteDeckCascades ==
    [][\A id \in DOMAIN decks \ DOMAIN decks' :
          /\ \A c \in CardsOf(cards, id) : ~get_card_local(cards', c, id).ok
          /\ get_tags_for_deck_local(tags', id) = {}
          /\ CardsOf(cards', id) = {}
          /\ \A ct \in card_tags' :
                /\ ct[1] \notin CardsOf(cards, id)
                /\ ct[2] \notin TagsOf(tags, id)]_vars

\* the deck is gone, and of the cards and the tag created on it none remains
C22_Witness ==
    /\ created.deck = 1
    /\ created.card = 2
    /\ created.tag = 1
    /\ DOMAIN decks = {}
    /\ DOMAIN cards = {}
    /\ DOMAIN tags = {}
    /\ card_tags = {}

\* pass p takes a step of its own
PassStep(p) ==
    <<pass'[p].pc, pass'[p].idx>> # <<pass[p].pc, pass[p].idx>>

\* phase 3 of pass p has applied some of its statements and not yet all
Phase3Partial(p) ==
    \/ pass[p].pc = "delete"
    \/ pass[p].pc = "update" /\ pass[p].idx > 1

\* C23: the updates and deletions of phase 3 are one transaction: while some
\* of them are applied and others are not, nothing but the pass itself
\* takes a step, so no other operation sees the store in between.
C23_Phase3IsAtomic ==
    [][Phase3Partial(1) => PassStep(1)]_vars

\* C24: no connection to the store is open while a request is in flight,
\* a request touches neither the store nor the mutex, every read of the
\* store by a pass comes before its first request and every write after its
\* last.
C24_PhasesAreSeparate ==
    [][/\ pass[1].pc = "net" => ~pass[1].conn
       /\ NetStep(1) => store' = store /\ lock' = lock
       /\ pass'[1].pc = "prefetch" => pass[1].pc \in {"idle", "prefetch"}
       /\ (PassStep(1) /\ store' # store)
             => pass[1].pc \in {"update", "delete"}
       /\ pass[1].pc \in {"update", "delete"}
             => pass'[1].pc \in {"update", "delete", "idle"}]_vars

\* phase 2 has sent the request of a card, after phase 1 read the card's
\* deck from the store
C24_Witness ==
    /\ pass[1].pc = "net"
    /\ pass[1].req.kind = "card"
    /\ DOMAIN pass[1].card_deck_ids # {}
    /\ ~pass[1].conn

\* the server ids that deck items of pass p, handled before its current
\* item, got in this pass for the local deck
MappedInPass(p, local_id) ==
    {r.id : r \in {x \in remote :
        /\ x.kind = "deck"
        /\ \E i \in 1..(pass[p].idx - 1) :
              /\ pass[p].items[i].id = x.entry
              /\ pass[p].items[i].entity_type = "deck"
              /\ pass[p].items[i].entity_id = local_id}}

C27_UnresolvedCardIsSkipped ==
    [][LET ps == pass[1]
           item == ps.items[ps.idx]
           unresolved ==
               \/ item.entity_id \notin DOMAIN ps.card_deck_ids
               \/ /\ ps.card_deck_ids[item.entity_id][2] = NoId
                  /\ MappedInPass(1, ps.card_deck_ids[item.entity_id][1]) = {}
       IN /\ (/\ NetStep(1)
              /\ item.entity_type = "card"
              /\ item.operation = "create"
              /\ item.payload # "null"
              /\ unresolved)
             => /\ remote' = remote
                /\ ~(pass'[1].req.kind = "card" /\ pass'[1].req.entry = item.id)
                /\ sync_queue' = sync_queue
                /\ pass'[1].pc # "idle" =>
                      /\ pass'[1].synced_items = ps.synced_items
                      /\ pass'[1].failed = ps.failed
                /\ pass'[1].pc = "idle" =>
                      /\ pass'[1].result = Len(ps.synced_items)
                      /\ ps.idx = Len(ps.items)
                /\ ps.idx < Len(ps.items) =>
                      /\ pass'[1].pc = "net"
                      /\ pass'[1].idx = ps.idx + 1
          /\ (pass[1].pc = "delete" /\ PassStep(1))
             => /\ sync_queue' \subseteq sync_queue
                /\ \A r \in sync_queue \ sync_queue' :
                      \E i \in 1..Len(ps.synced_items) :
                          /\ ps.synced_items[i][1] = r.id
                          /\ ps.synced_items[i][3] # NoId]_vars

\* the request of the deck failed, its first card was skipped, and the
\* pass is at the second card
C27_Witness ==
    /\ pass[1].pc = "net"
    /\ pass[1].idx = 3
    /\ pass[1].req.kind = "deck"
    /\ pass[1].synced_items = <<>>
    /\ Len(pass[1].seen) = 2
    /\ pass[1].seen[2].entity_type = "card"
    /\ pass[1].seen[2] \in sync_queue
    /\ pass[1].seen[2] \notin pass[1].failed

\* pass p reads or writes the store on this step
StoreAccess(p) ==
    /\ PassStep(p)
    /\ \/ pass[p].pc \in {"idle", "prefetch", "update", "delete"}
       \/ pass'[p].pc \in {"update", "delete"}

\* C25: one operation touches the store at a time: a drain pass reads and
\* writes the store only while no command holds the mutex of DbState, and
\* no command takes the mutex while phase 1 or phase 3 of a pass is under
\* way.
C25_OneOperationAtATime ==
    [][/\ StoreAccess(1) => lock.op = "free"
       /\ (pass[1].pc \in {"prefetch", "update", "delete"} /\ ~PassStep(1))
             => store' = store]_vars

\* C28: every deck that is LocalOnly is named by a create row of the sync
\* queue, and so is each of its cards that has no remote id.
C28_LocalOnlyIsQueued ==
    \A d \in DOMAIN decks :
        from_str(decks[d].sync_status) = "LocalOnly" =>
            /\ \E r \in sync_queue :
                  /\ r.entity_type = "deck"
                  /\ r.entity_id = d
                  /\ r.operation = "create"
            /\ \A c \in CardsOf(cards, d) :
                  cards[c].remote_id = NoId =>
                      \E r \in sync_queue :
                          /\ r.entity_type = "card"
                          /\ r.entity_id = c
                          /\ r.operation = "create"

\* the queue rows pass p has recorded as synced
SyncedIds(ps) == {ps.synced_items[i][1] : i \in 1..Len(ps.synced_items)}

\* how far a running pass has come: its phase, and its place within it
PassPhase(ps) ==
    CASE ps.pc = "prefetch" -> 1
      [] ps.pc = "net" -> 2
      [] ps.pc \in {"update", "delete"} -> 3
      [] OTHER -> 4

PassPlace(ps) == 2 * ps.idx + (IF ps.pc = "delete" THEN 1 ELSE 0)

\* C29: a running pass works on the snapshot it took and on nothing else.
\* The snapshot is never extended; phase 2 goes through its items in order,
\* one per step, each once, sends requests for no other row and leaves
\* phase 2 only after the last; phase 3 removes only rows recorded as synced,
\* which are rows of the snapshot; every step of the pass brings it forward,
\* so it returns after finitely many steps.  A row enqueued after the
\* snapshot is therefore neither sent nor removed.
C29_PassRunsOverItsSnapshot ==
    [][LET ps == pass[1]
           item == ps.items[ps.idx]
       IN ps.pc # "idle" =>
          /\ ~PassStep(1) =>
                /\ pass'[1].items = ps.items
                /\ pass'[1].seen = ps.seen
                /\ pass'[1].synced_items = ps.synced_items
                /\ \A r \in remote' \ remote : r.entry = NoId
          /\ PassStep(1) =>
                \/ PassPhase(pass'[1]) > PassPhase(ps)
                \/ /\ PassPhase(pass'[1]) = PassPhase(ps)
                   /\ PassPlace(pass'[1]) > PassPlace(ps)
          /\ (PassStep(1) /\ ps.pc = "prefetch") =>
                /\ remote' = remote
                /\ sync_queue' = sync_queue
                /\ pass'[1].items = ps.items
          /\ (PassStep(1) /\ ps.pc = "net") =>
                /\ ps.seen = SubSeq(ps.items, 1, ps.idx - 1)
                /\ \A r \in remote' \ remote : r.entry = item.id
                /\ sync_queue' = sync_queue
                /\ pass'[1].pc = "net" =>
                      /\ pass'[1].idx = ps.idx + 1
                      /\ pass'[1].items = ps.items
                      /\ pass'[1].seen = Append(ps.seen, item)
                      /\ SyncedIds(pass'[1]) \subseteq SyncedIds(ps) \cup {item.id}
                /\ pass'[1].pc # "net" => ps.idx = Len(ps.items)
                /\ pass'[1].pc \in {"update", "delete"} =>
                      SyncedIds(pass'[1]) \subseteq
                          {ps.items[i].id : i \in 1..Len(ps.items)}
          /\ (PassStep(1) /\ ps.pc \in {"update", "delete"}) =>
                /\ remote' = remote
                /\ sync_queue' \subseteq sync_queue
                /\ \A r \in sync_queue \ sync_queue' :
                      r.id = ps.synced_items[ps.idx][1]
                /\ pass'[1].pc # "idle" =>
                      pass'[1].synced_items = ps.synced_items]_vars

\* phase 3 is at the last synced item of a snapshot of two or more, a row
\* was enqueued since the snapshot, and a row the pass has not recorded is
\* in the queue
C29_Witness ==
    /\ pass[1].pc = "delete"
    /\ pass[1].idx = Len(pass[1].synced_items)
    /\ pass[1].idx >= 2
    /\ pass[1].enq
    /\ \E r \in sync_queue : r.id \notin SyncedIds(pass[1])

C31_NeverConflict ==
    \A d \in DOMAIN decks : from_str(decks[d].sync_status) # "Conflict"

\* a deck that was imported offline, replayed by a drain pass and then
\* touched by a child mutation
C31_Witness ==
    \E d \in DOMAIN decks :
        /\ decks[d].origin = "import"
        /\ decks[d].remote_id # NoId
        /\ decks[d].sync_status = "pending_sync"

\* C33: a queue row that one pass in flight has had the server create an
\* entity for is not sent again with success by another pass: no step adds
\* a remote entity for a row that a running pass has recorded as synced.
C33_NoCreateByTwoPasses ==
    [][\A r \in remote' \ remote :
          \A q \in Passes :
              pass[q].pc # "idle" => r.entry \notin SyncedIds(pass[q])]_vars

\* C34: a deck that is Synced mirrors the server: each of its cards has a
\* remote id, and the sync queue holds no create row for the deck or for
\* one of its cards.  Stated of the states in which no pass is running, so
\* that the statements of an unfinished phase 3 do not count against it.
C34_SyncedMirrorsServer ==
    (\A p \in Passes : pass[p].pc = "idle") =>
        \A d \in DOMAIN decks :
            from_str(decks[d].sync_status) = "Synced" =>
                /\ \A c \in CardsOf(cards, d) : cards[c].remote_id # NoId
                /\ \A r \in sync_queue :
                      r.operation = "create" =>
                          /\ ~(r.entity_type = "deck" /\ r.entity_id = d)
                          /\ ~(/\ r.entity_type = "card"
                               /\ r.entity_id \in CardsOf(cards, d))

\* the deck or card a sync_queue row names is in the store
NamedEntityExists(r) ==
    /\ r.entity_type = "deck" => r.entity_id \in DOMAIN decks
    /\ r.entity_type = "card" => r.entity_id \in DOMAIN cards

\* C38: after every step, each sync_queue row names a deck or card that is
\* in the store, and no step has the server create an entity for a row
\* whose deck or card is gone.
C38_QueueNamesLiveEntities ==
    [][/\ \A r \in sync_queue' : NamedEntityExists(r)'
       /\ \A e \in remote' \ remote :
             \A r \in sync_queue : r.id = e.entry => NamedEntityExists(r)]_vars

\* C39: with a server that accepts every request and drain invoked again
\* and again, a queue that holds rows is eventually empty: get_pending_count
\* reaches 0.
C39_QueueEventuallyEmpty ==
    (get_pending_count > 0) ~> (get_pending_count = 0)

\* the entity e is the one the statement of phase 3 at hand is about, and
\* the server has created the entity that statement records for its row
Replayed(p, e) ==
    /\ pass[p].pc = "update"
    /\ LET synced == pass[p].synced_items[pass[p].idx]
       IN /\ synced[2] = e
          /\ \E r \in remote : r.entry = synced[1] /\ r.id = synced[3]

\* C40: a step of a drain pass adds and removes no deck and no card, and
\* changes a deck or a card only if its queue row was replayed with success
\* in this pass, and then only its status and remote id; every other deck
\* and card is as it was.
C40_DrainChangesOnlyReplayed ==
    [][PassStep(1) =>
          /\ DOMAIN decks' = DOMAIN decks
          /\ DOMAIN cards' = DOMAIN cards
          /\ \A d \in DOMAIN decks :
                decks'[d] # decks[d] =>
                    /\ Replayed(1, d)
                    /\ decks'[d].origin = decks[d].origin
          /\ \A c \in DOMAIN cards :
                cards'[c] # cards[c] =>
                    /\ Replayed(1, c)
                    /\ cards'[c].deck_id = cards[c].deck_id]_vars

\* phase 3 has marked a card as synced, and the card's deck is PendingSync
\* with no row in the queue
C40_Witness ==
    /\ pass[1].pc = "delete"
    /\ LET e == pass[1].synced_items[pass[1].idx][2]
       IN /\ e \in DOMAIN cards
          /\ cards[e].sync_status = "synced"
          /\ cards[e].deck_id \in DOMAIN decks
          /\ decks[cards[e].deck_id].sync_status = "pending_sync"
          /\ \A r \in sync_queue : r.entity_id # cards[e].deck_id

\* ============================================================== quizzes
\* Strings are sequences of characters.  Option<T>: None is the empty
\* tuple, Some(x) the tuple of x.
MaxLen == 4
MaxCorrectLen == 2


\* the characters of the answers: two letters of choice ids, the separator,
\* white space, and an upper-case letter
Chars == {"a", "b", ",", " ", "A"}

\* the strings of at most n characters
RECURSIVE Strings(_)
Strings(n) ==
    IF n = 0 THEN {<<>>}
    ELSE LET shorter == Strings(n - 1)
         IN shorter \cup {Append(t, c) : t \in shorter, c \in Chars}

\* the byte of a character: str compares byte by byte
byte(c) ==
    CASE c = " " -> 32
      [] c = "," -> 44
      [] c = "A" -> 65
      [] c = "a" -> 97
      [] c = "b" -> 98

\* Ord for str: a <= b
RECURSIVE str_le(_, _)
str_le(a, b) ==
    IF a = <<>> THEN TRUE
    ELSE IF b = <<>> THEN FALSE
    ELSE IF Head(a) = Head(b) THEN str_le(Tail(a), Tail(b))
    ELSE byte(Head(a)) < byte(Head(b))

\* str::split(','): the pieces between the separators, "" gives [""]
RECURSIVE split(_)
split(str) ==
    IF \A i \in 1..Len(str) : str[i] # ","
    THEN <<str>>
    ELSE LET i == CHOOSE k \in 1..Len(str) :
                    str[k] = "," /\ \A j \in 1..(k - 1) : str[j] # ","
         IN <<SubSeq(str, 1, i - 1)>> \o split(SubSeq(str, i + 1, Len(str)))

\* str::trim: white space removed at both ends
RECURSIVE trim(_)
trim(str) ==
    IF str = <<>> THEN str
    ELSE IF Head(str) = " " THEN trim(Tail(str))
    ELSE IF str[Len(str)] = " " THEN trim(SubSeq(str, 1, Len(str) - 1))
    ELSE str

\* user_answer.split(',').map(|s| s.trim()).collect()
RECURSIVE map_trim(_)
map_trim(pieces) ==
    IF pieces = <<>> THEN <<>>
    ELSE <<trim(Head(pieces))>> \o map_trim(Tail(pieces))

\* one element put in its place in a sorted vector
RECURSIVE insert_sorted(_, _)
insert_sorted(x, sorted) ==
    IF sorted = <<>> THEN <<x>>
    ELSE IF str_le(x, Head(sorted)) THEN <<x>> \o sorted
    ELSE <<Head(sorted)>> \o insert_sorted(x, Tail(sorted))

\* variant: the vector is left in the order it has
unsorted(v) == v

\* Vec::sort
RECURSIVE sort(_)
sort(v) ==
    IF v = <<>> THEN <<>>
    ELSE insert_sorted(Head(v), sort(Tail(v)))

\* the rows of a query in the order the store returns them
RECURSIVE rows_of(_)
rows_of(set) ==
    IF set = {} THEN <<>>
    ELSE LET x == CHOOSE y \in set : TRUE
         IN <<x>> \o rows_of(set \ {x})

\* ------------------------------------------------- local_db.rs: grading
\* the ids of the choices, as the strings an answer names them by
ChoiceIds == {<<"a">>, <<"b">>}

\* "fill_in_blank": correct_answer.as_deref() == Some(user_answer)
fill_in_blank_trimmed(correct_answer, user_answer) ==
    /\ correct_answer # None
    /\ trim(correct_answer[1]) = trim(user_answer)

fill_in_blank_matches(correct_answer, user_answer) ==
    correct_answer = Some(user_answer)

\* variant: every id the answer names is a correct one
multiple_choice_partial(user_ids, correct_ids) ==
    \A i \in 1..Len(user_ids) :
        \E j \in 1..Len(correct_ids) : user_ids[i] = correct_ids[j]

\* "multiple_choice": both vectors sorted, then compared
multiple_choice_matches(user_ids, correct_ids) ==
    sort(user_ids) = sort(correct_ids)

\* SELECT id FROM choices WHERE question_id = ?1 AND is_correct = 1
correct_ids(question_id) ==
    rows_of({c \in DOMAIN choices :
                /\ choices[c].question_id = question_id
                /\ choices[c].is_correct})

\* grade_answer
grade_answer(question_id, user_answer) ==
    IF question_id \notin DOMAIN questions
    THEN Err("Question not found")
    ELSE LET question_type == questions[question_id].question_type
             correct_answer == questions[question_id].correct_answer
         IN CASE question_type = "fill_in_blank" ->
                    Ok(fill_in_blank_matches(correct_answer, user_answer))
              [] question_type = "multiple_choice" ->
                    Ok(multiple_choice_matches(map_trim(split(user_answer)),
                                               correct_ids(question_id)))
              [] OTHER -> Ok(FALSE)

\* grade_answer applied to a question of the store and an answer
grade_answer_call(question_id, user_answer) ==
    /\ ret' = [op |-> "grade_answer", question_id |-> question_id,
               user_answer |-> user_answer,
               result |-> grade_answer(question_id, user_answer)]
    /\ UNCHANGED <<sync_vars, study_sessions, question_uuids, quiz_store>>

\* a questions row
Question(quiz_id, question_type, correct_answer, position) ==
    [quiz_id |-> quiz_id, question_type |-> question_type,
     correct_answer |-> correct_answer, position |-> position]

\* a choices table for question 1: each of ChoiceIds is absent, a wrong
\* choice or a correct one
ChoiceTables ==
    {[c \in {x \in ChoiceIds : f[x] # "absent"} |->
            [question_id |-> 1, is_correct |-> f[c] = "correct"]] :
        f \in [ChoiceIds -> {"absent", "wrong", "correct"}]}

\* a store that holds one quiz with one question: a multiple-choice
\* question with any choices, a fill-in-blank question with any or no
\* correct answer, or a question of another type
InitGrade ==
    /\ InitSync
    /\ quizzes = {1}
    /\ quiz_attempts = EmptyMap
    /\ question_results = {}
    /\ ret = NoRet
    /\ study_sessions = EmptyMap
    /\ question_uuids = 1
    /\ \/ /\ questions = [q \in {1} |-> Question(1, "multiple_choice", None, 0)]
          /\ choices \in ChoiceTables
       \/ /\ \E correct_answer \in {None} \cup {Some(t) : t \in Strings(MaxCorrectLen)} :
                questions = [q \in {1} |-> Question(1, "fill_in_blank", correct_answer, 0)]
          /\ choices = EmptyMap
       \/ /\ questions = [q \in {1} |-> Question(1, "true_false", None, 0)]
          /\ choices \in ChoiceTables

\* one grading per behaviour, for every answer of at most MaxLen characters
NextGrade ==
    /\ ret = NoRet
    /\ \E user_answer \in Strings(MaxLen) : grade_answer_call(1, user_answer)

SpecGrade == InitGrade /\ [][NextGrade]_vars

\* ------------------------------------------------- properties of grading
Range(v) == {v[i] : i \in 1..Len(v)}

\* a grading of a question of the given type has returned
Graded(question_type) ==
    /\ ret.op = "grade_answer"
    /\ ret.question_id \in DOMAIN questions
    /\ questions[ret.question_id].question_type = question_type

GradedTrue == ret.result.ok /\ ret.result.value

GradedFalse == ret.result.ok /\ ~ret.result.value

\* the ids a submission names: its comma-separated pieces, each trimmed
SubmittedSet == Range(map_trim(split(ret.user_answer)))

\* the choices of the graded question that are flagged correct
CorrectSet ==
    {c \in DOMAIN choices : /\ choices[c].question_id = ret.question_id
                            /\ choices[c].is_correct}

\* C14: a multiple-choice submission grades true if and only if the set of
\* the ids it names (comma-separated, each trimmed) equals the set of the
\* question's choices flagged correct.
C14_TrueIffSetsEqual ==
    Graded("multiple_choice") => (GradedTrue <=> SubmittedSet = CorrectSet)

\* C15: a multiple-choice submission whose ids are a strict subset or a
\* strict superset of the correct choices grades as incorrect.
C15_NoPartialCredit ==
    (/\ Graded("multiple_choice")
     /\ SubmittedSet # CorrectSet
     /\ \/ SubmittedSet \subseteq CorrectSet
        \/ CorrectSet \subseteq SubmittedSet)
    => GradedFalse

\* one correct choice of two named, and one wrong choice named beside the
\* only correct one
C15_Witness ==
    /\ Graded("multiple_choice")
    /\ GradedFalse
    /\ \/ CorrectSet = ChoiceIds /\ SubmittedSet = {<<"a">>}
       \/ CorrectSet = {<<"a">>} /\ SubmittedSet = ChoiceIds

RECURSIVE join(_)
join(pieces) ==
    IF Len(pieces) = 1 THEN pieces[1]
    ELSE pieces[1] \o <<",">> \o join(Tail(pieces))

Reorderings(n) ==
    {f \in [1..n -> 1..n] : \A i, j \in 1..n : f[i] = f[j] => i = j}

\* C16: every reordering of the ids of a multiple-choice submission grades
\* as the submission itself did.
C16_OrderIrrelevant ==
    Graded("multiple_choice") =>
        LET pieces == split(ret.user_answer)
        IN \A f \in Reorderings(Len(pieces)) :
              grade_answer(ret.question_id,
                           join([i \in 1..Len(pieces) |-> pieces[f[i]]]))
                = ret.result

\* both correct choices named in descending order, and graded correct
C16_Witness ==
    /\ Graded("multiple_choice")
    /\ CorrectSet = ChoiceIds
    /\ ret.user_answer = <<"b", ",", "a">>
    /\ GradedTrue

\* C17: a fill-in-blank submission grades true if and only if the question
\* has a correct answer and the submission equals it character for
\* character; without a correct answer every submission grades false.
C17_ExactMatch ==
    Graded("fill_in_blank") =>
        LET correct_answer == questions[ret.question_id].correct_answer
        IN /\ ret.result.ok
           /\ ret.result.value <=>
                /\ correct_answer # None
                /\ Len(correct_answer[1]) = Len(ret.user_answer)
                /\ \A i \in 1..Len(ret.user_answer) :
                      correct_answer[1][i] = ret.user_answer[i]

\* a submission that differs from the correct answer by a trailing blank
\* or by case only, graded incorrect
C17_Witness ==
    /\ Graded("fill_in_blank")
    /\ questions[ret.question_id].correct_answer = Some(<<"a">>)
    /\ ret.user_answer \in {<<"a", " ">>, <<"A">>}
    /\ GradedFalse

\* ------------------------------------------------- local_db.rs: quizzes
MaxQuizzes == 1
MaxQuestions == 3
MaxAttempts == 1
MaxAnswers == 3
MaxResults == 3
QuizMaxTime == 1
MaxReorder == 2
EditQuestions == 2

\* the next key of a table whose keys are 1, 2, ...: a new Uuid
fresh_id(keys) == Cardinality(keys) + 1

\* create_quiz
create_quiz ==
    /\ quizzes' = quizzes \cup {fresh_id(quizzes)}
    /\ ret' = NoRet
    /\ UNCHANGED <<sync_vars, study_sessions, question_uuids, questions, choices, quiz_attempts,
                   question_results>>

\* the questions of a quiz
QuestionsOf(quiz_id) ==
    {q \in DOMAIN questions : questions[q].quiz_id = quiz_id}

\* SELECT COALESCE(MAX(position), -1) + 1 FROM questions WHERE quiz_id = ?1
next_position(quiz_id) ==
    IF QuestionsOf(quiz_id) = {} THEN 0
    ELSE 1 + CHOOSE m \in {questions[q].position : q \in QuestionsOf(quiz_id)} :
                 \A q \in QuestionsOf(quiz_id) : questions[q].position <= m

\* create_question, of a request without choices
create_question(quiz_id, question_type, correct_answer) ==
    LET id == question_uuids + 1
    IN /\ question_uuids' = id
       /\ questions' =
              [q \in DOMAIN questions \cup {id} |->
                  IF q = id
                  THEN Question(quiz_id, question_type, correct_answer,
                                next_position(quiz_id))
                  ELSE questions[q]]
       /\ ret' = NoRet
       /\ UNCHANGED <<sync_vars, study_sessions, quizzes, choices, quiz_attempts,
                      question_results>>

\* ON DELETE CASCADE of choices.question_id
cascade_choices(question_id) ==
    IF foreign_keys
    THEN {c \in DOMAIN choices : choices[c].question_id = question_id}
    ELSE {}

\* delete_question: DELETE FROM questions WHERE id = ?1
delete_question(question_id) ==
    /\ questions' = [q \in DOMAIN questions \ {question_id} |-> questions[q]]
    /\ choices' = [c \in DOMAIN choices \ cascade_choices(question_id) |->
                      choices[c]]
    /\ ret' = NoRet
    /\ UNCHANGED <<sync_vars, study_sessions, question_uuids, quizzes, quiz_attempts,
                   question_results>>

\* the index of the last element of question_ids that is q
last_index(question_ids, q) ==
    CHOOSE i \in 1..Len(question_ids) :
        /\ question_ids[i] = q
        /\ \A j \in (i + 1)..Len(question_ids) : question_ids[j] # q

\* reorder_questions: for (idx, qid) in the list, in order,
\* UPDATE questions SET position = idx WHERE id = qid AND quiz_id = ?3
reorder_questions(quiz_id, question_ids) ==
    /\ questions' =
          [q \in DOMAIN questions |->
              IF /\ questions[q].quiz_id = quiz_id
                 /\ \E i \in 1..Len(question_ids) : question_ids[i] = q
              THEN [questions[q] EXCEPT
                       !.position = last_index(question_ids, q) - 1]
              ELSE questions[q]]
    /\ ret' = NoRet
    /\ UNCHANGED <<sync_vars, study_sessions, question_uuids, quizzes, choices,
                   quiz_attempts, question_results>>

\* start_quiz_attempt
start_quiz_attempt(quiz_id, now) ==
    LET id == fresh_id(DOMAIN quiz_attempts)
        total_questions == Cardinality(QuestionsOf(quiz_id))
    IN /\ quiz_attempts' =
              [a \in DOMAIN quiz_attempts \cup {id} |->
                  IF a = id
                  THEN [quiz_id |-> quiz_id, started_at |-> now,
                        completed_at |-> None, duration_seconds |-> None,
                        total_questions |-> total_questions,
                        correct_answers |-> 0, score_percentage |-> 0]
                  ELSE quiz_attempts[a]]
       /\ ret' = NoRet
       /\ UNCHANGED <<sync_vars, study_sessions, question_uuids, quizzes, questions, choices,
                      question_results>>

\* variant: the score cut to an integer
score_truncated(correct_count, total) ==
    IF total > 0 THEN (100 * correct_count) \div total ELSE 0

\* ((correct_count as f64 / total as f64) * 100.0).round() as i32, or 0:
\* f64::round rounds half away from zero
score_percentage(correct_count, total) ==
    IF total > 0
    THEN (200 * correct_count + total) \div (2 * total)
    ELSE 0

\* variant: the questions of the attempt's quiz, counted at submission
select_count_questions(attempt_id) ==
    Cardinality(QuestionsOf(quiz_attempts[attempt_id].quiz_id))

\* SELECT total_questions FROM quiz_attempts WHERE id = ?1
select_total_questions(attempt_id) ==
    quiz_attempts[attempt_id].total_questions

\* the index of the first answer whose grading fails, or 0
first_failure(answers) ==
    IF \A i \in 1..Len(answers) :
           grade_answer(answers[i].question_id, answers[i].answer).ok
    THEN 0
    ELSE CHOOSE i \in 1..Len(answers) :
             /\ ~grade_answer(answers[i].question_id, answers[i].answer).ok
             /\ \A j \in 1..(i - 1) :
                   grade_answer(answers[j].question_id, answers[j].answer).ok

\* the question_results rows of the first n answers
result_rows(attempt_id, answers, n) ==
    {[id |-> Cardinality(question_results) + i,
      attempt_id |-> attempt_id,
      question_id |-> answers[i].question_id,
      user_answer |-> answers[i].answer,
      is_correct |-> grade_answer(answers[i].question_id,
                                  answers[i].answer).value] : i \in 1..n}

\* submit_quiz_attempt
submit_quiz_attempt(attempt_id, answers, now) ==
    IF attempt_id \notin DOMAIN quiz_attempts
    THEN /\ ret' = [op |-> "submit_quiz_attempt", attempt_id |-> attempt_id,
                    now |-> now, result |-> Err("Attempt not found")]
         /\ UNCHANGED <<sync_vars, study_sessions, question_uuids, quiz_store>>
    ELSE LET duration == now - quiz_attempts[attempt_id].started_at
             failed == first_failure(answers)
         IN IF failed # 0
            THEN /\ question_results' = question_results \cup
                        result_rows(attempt_id, answers, failed - 1)
                 /\ ret' = [op |-> "submit_quiz_attempt",
                            attempt_id |-> attempt_id, now |-> now,
                            result |-> Err("Question not found")]
                 /\ UNCHANGED <<sync_vars, study_sessions, question_uuids, quizzes, questions, choices,
                                quiz_attempts>>
            ELSE LET rows == result_rows(attempt_id, answers, Len(answers))
                     correct_count ==
                         Cardinality({r \in rows : r.is_correct})
                     total == select_total_questions(attempt_id)
                     row == [quiz_attempts[attempt_id] EXCEPT
                                !.completed_at = Some(now),
                                !.duration_seconds = Some(duration),
                                !.correct_answers = correct_count,
                                !.score_percentage =
                                    score_percentage(correct_count, total)]
                 IN /\ question_results' = question_results \cup rows
                    /\ quiz_attempts' =
                           [quiz_attempts EXCEPT ![attempt_id] = row]
                    /\ ret' = [op |-> "submit_quiz_attempt",
                               attempt_id |-> attempt_id, now |-> now,
                               result |-> Ok(row)]
                    /\ UNCHANGED <<sync_vars, study_sessions, question_uuids, quizzes, questions, choices>>

\* ------------------------------------------------- local_db.rs: statistics
\* the values of SQLite, by storage class; a REAL is a fraction
Null == [type |-> "NULL"]
Integer(i) == [type |-> "INTEGER", value |-> i]
Real(n, d) == [type |-> "REAL", num |-> n, den |-> d]
Text(t) == [type |-> "TEXT", value |-> t]

\* rusqlite, FromSql for i32: an INTEGER only
get_i32(v) ==
    IF v.type = "INTEGER" THEN Ok(v.value) ELSE Err("InvalidColumnType")

\* rusqlite, FromSql for Option<i32>: NULL is None, else as i32
get_option_i32(v) ==
    IF v.type = "NULL" THEN Ok(None)
    ELSE IF get_i32(v).ok THEN Ok(Some(get_i32(v).value))
    ELSE get_i32(v)

\* rusqlite, FromSql for f64: a REAL, or an INTEGER converted
get_f64(v) ==
    CASE v.type = "REAL" -> Ok(Real(v.num, v.den))
      [] v.type = "INTEGER" -> Ok(Real(v.value, 1))
      [] OTHER -> Err("InvalidColumnType")

\* rusqlite, FromSql for Option<String>
get_option_string(v) ==
    CASE v.type = "NULL" -> Ok(None)
      [] v.type = "TEXT" -> Ok(Some(v.value))
      [] OTHER -> Err("InvalidColumnType")

RECURSIVE sum(_)
sum(v) == IF v = <<>> THEN 0 ELSE Head(v) + sum(Tail(v))

RECURSIVE maximum(_)
maximum(v) ==
    IF Len(v) = 1 THEN v[1]
    ELSE IF Head(v) >= maximum(Tail(v)) THEN Head(v) ELSE maximum(Tail(v))

\* AVG(): NULL over no rows, else a REAL
sql_avg(v) == IF v = <<>> THEN Null ELSE Real(sum(v), Len(v))

\* MAX() of integers: NULL over no rows
sql_max(v) == IF v = <<>> THEN Null ELSE Integer(maximum(v))

\* MAX() of timestamps: NULL over no rows
sql_max_text(v) == IF v = <<>> THEN Null ELSE Text(maximum(v))

COALESCE(v, default) == IF v.type = "NULL" THEN default ELSE v

\* ... FROM quiz_attempts WHERE quiz_id = ?1 AND completed_at IS NOT NULL
completed_attempts(quiz_id) ==
    {a \in DOMAIN quiz_attempts :
        /\ quiz_attempts[a].quiz_id = quiz_id
        /\ quiz_attempts[a].completed_at # None}

\* the column of the completed attempts of a quiz
column(quiz_id, name) ==
    LET ids == rows_of(completed_attempts(quiz_id))
    IN [i \in 1..Len(ids) |->
           CASE name = "score_percentage" -> quiz_attempts[ids[i]].score_percentage
             [] name = "duration_seconds" -> quiz_attempts[ids[i]].duration_seconds[1]
             [] name = "completed_at" -> quiz_attempts[ids[i]].completed_at[1]]

\* the row of aggregates of get_quiz_stats
aggregate_row(quiz_id) ==
    <<Integer(Cardinality(completed_attempts(quiz_id))),
      COALESCE(sql_avg(column(quiz_id, "score_percentage")), Integer(0)),
      COALESCE(sql_max(column(quiz_id, "score_percentage")), Integer(0)),
      sql_avg(column(quiz_id, "duration_seconds")),
      sql_max_text(column(quiz_id, "completed_at"))>>

\* the row read as (i32, f64, i32, Option<i32>, Option<String>), or the
\* default (0, 0.0, 0, None, None) when a column does not convert
aggregates(quiz_id) ==
    LET row == aggregate_row(quiz_id)
        fields == <<get_i32(row[1]), get_f64(row[2]), get_i32(row[3]),
                    get_option_i32(row[4]), get_option_string(row[5])>>
    IN IF \A i \in 1..5 : fields[i].ok
       THEN [i \in 1..5 |-> fields[i].value]
       ELSE <<0, Real(0, 1), 0, None, None>>

RecentLimit == 5

\* the completed attempts in an order of ORDER BY completed_at DESC: the
\* order of two attempts completed at the same time is either one
RECURSIVE order_by_completed_at_desc(_, _)
order_by_completed_at_desc(ids, tie) ==
    IF ids = {} THEN <<>>
    ELSE LET latest == {a \in ids : \A b \in ids :
                           quiz_attempts[b].completed_at[1]
                             <= quiz_attempts[a].completed_at[1]}
             first == IF tie = "ascending"
                      THEN CHOOSE a \in latest : \A b \in latest : a <= b
                      ELSE CHOOSE a \in latest : \A b \in latest : b <= a
         IN <<first>> \o order_by_completed_at_desc(ids \ {first}, tie)

\* SELECT score_percentage ... ORDER BY completed_at DESC LIMIT 5
recent_scores(quiz_id, tie) ==
    LET ids == order_by_completed_at_desc(completed_attempts(quiz_id), tie)
        n == IF Len(ids) < RecentLimit THEN Len(ids) ELSE RecentLimit
    IN [i \in 1..n |-> quiz_attempts[ids[i]].score_percentage]

\* get_quiz_stats
get_quiz_stats(quiz_id, tie) ==
    LET row == aggregates(quiz_id)
    IN /\ ret' = [op |-> "get_quiz_stats", quiz_id |-> quiz_id,
                  result |-> Ok([total_attempts |-> row[1],
                                 average_score |-> row[2],
                                 best_score |-> row[3],
                                 average_duration_seconds |-> row[4],
                                 last_attempt_at |-> row[5],
                                 recent_scores |-> recent_scores(quiz_id, tie)])]
       /\ UNCHANGED <<sync_vars, study_sessions, question_uuids, quiz_store>>

\* ------------------------------------------------- specification: quizzes
\* the answers of a submission: at most MaxAnswers, each the right answer
\* ("a") to one of the questions there can be, or a wrong one ("b") to the
\* first
Answer ==
    {[question_id |-> q, answer |-> <<"a">>] : q \in 1..MaxQuestions}
      \cup {[question_id |-> 1, answer |-> <<"b">>]}

RECURSIVE Answers(_)
Answers(n) ==
    IF n = 0 THEN {<<>>}
    ELSE Answers(n - 1) \cup
         {Append(v, x) : v \in {w \in Answers(n - 1) : Len(w) = n - 1},
                         x \in Answer}

\* the commands of lib.rs on quizzes, each under the lock of DbState; the
\* clock of a command reads any time
QuizCreate ==
    /\ Cardinality(quizzes) < MaxQuizzes
    /\ create_quiz

QuestionCreate ==
    /\ question_uuids < MaxQuestions
    /\ \E quiz_id \in quizzes :
           create_question(quiz_id, "fill_in_blank", Some(<<"a">>))

AttemptStart ==
    /\ Cardinality(DOMAIN quiz_attempts) < MaxAttempts
    /\ \E quiz_id \in quizzes, now \in 0..QuizMaxTime :
           start_quiz_attempt(quiz_id, now)

AttemptSubmit ==
    \E attempt_id \in 1..MaxAttempts, answers \in Answers(MaxAnswers),
       now \in 0..QuizMaxTime :
       /\ Cardinality(question_results) + Len(answers) <= MaxResults
       /\ submit_quiz_attempt(attempt_id, answers, now)

NextQuiz == QuizCreate \/ QuestionCreate \/ AttemptStart \/ AttemptSubmit

SpecQuiz == Init /\ [][NextQuiz]_vars

\* the lists of at most n question ids, repetitions and ids of no question
\* included
RECURSIVE QuestionLists(_)
QuestionLists(n) ==
    IF n = 0 THEN {<<>>}
    ELSE QuestionLists(n - 1) \cup
         {Append(v, q) : v \in {w \in QuestionLists(n - 1) : Len(w) = n - 1},
                         q \in 1..EditQuestions}

QuestionAdd ==
    /\ question_uuids < EditQuestions
    /\ \E quiz_id \in quizzes :
           create_question(quiz_id, "fill_in_blank", Some(<<"a">>))

QuestionDelete ==
    \E question_id \in DOMAIN questions : delete_question(question_id)

QuestionsReorder ==
    \E quiz_id \in quizzes, question_ids \in QuestionLists(MaxReorder) :
        reorder_questions(quiz_id, question_ids)

\* the quiz commands with the editing of a quiz's questions: questions are
\* created, deleted and reordered before, between and after the start and
\* the submission of an attempt
NextQuestions ==
    \/ QuizCreate
    \/ QuestionAdd
    \/ QuestionDelete
    \/ QuestionsReorder
    \/ AttemptStart
    \/ AttemptSubmit

SpecQuestions == Init /\ [][NextQuestions]_vars

\* ------------------------------------------------- properties of attempts
Completed == {a \in DOMAIN quiz_attempts : quiz_attempts[a].completed_at # None}

\* C12: the score of every completed attempt is between 0 and 100,
\* whatever answers were submitted.
C12_ScoreWithinRange ==
    \A a \in Completed :
        /\ 0 <= quiz_attempts[a].score_percentage
        /\ quiz_attempts[a].score_percentage <= 100

\* C13: the score of every completed attempt is 100 * correct_answers /
\* total_questions rounded to the nearest integer (a half rounds up) when
\* total_questions > 0, and 0 when total_questions = 0.
C13_ScoreIsRoundedRatio ==
    \A a \in Completed :
        LET score == quiz_attempts[a].score_percentage
            correct == quiz_attempts[a].correct_answers
            total == quiz_attempts[a].total_questions
        IN IF total > 0
           THEN /\ (2 * score - 1) * total <= 200 * correct
                /\ 200 * correct < (2 * score + 1) * total
           ELSE score = 0

\* two correct answers of three questions score 67
C13_Witness ==
    \E a \in Completed :
        /\ quiz_attempts[a].total_questions = 3
        /\ quiz_attempts[a].correct_answers = 2
        /\ quiz_attempts[a].score_percentage = 67

\* C18: no attempt holds a negative duration: a submission whose clock is
\* before the attempt's start reports an error and completes nothing.
C18_NoNegativeDuration ==
    /\ \A a \in Completed : quiz_attempts[a].duration_seconds[1] >= 0
    /\ (/\ ret.op = "submit_quiz_attempt"
        /\ ret.attempt_id \in DOMAIN quiz_attempts
        /\ ret.now < quiz_attempts[ret.attempt_id].started_at)
       => ~ret.result.ok

\* ------------------------------------------------- specification: statistics
MaxStatAttempts == 6

\* what became of an attempt: on quiz 1 it was left open, or submitted with
\* a wrong or with the right answer; on quiz 2 it was submitted with the
\* right answer
StatAttempt ==
    {[quiz_id |-> 1, completed |-> FALSE, correct |-> FALSE],
     [quiz_id |-> 1, completed |-> TRUE, correct |-> FALSE],
     [quiz_id |-> 1, completed |-> TRUE, correct |-> TRUE],
     [quiz_id |-> 2, completed |-> TRUE, correct |-> TRUE]}

\* the time at which attempt a of n was submitted: in the order the attempts
\* were started, or in the opposite order
submitted_at(a, n, reversed) == IF reversed THEN n + 1 - a ELSE a

\* the store after two quizzes of one question each were created, n attempts
\* started at time 0, and some of them submitted with one answer, at
\* different times
InitStats ==
    /\ InitSync
    /\ quizzes = {1, 2}
    /\ questions = [q \in {1, 2} |->
                       Question(q, "fill_in_blank", Some(<<"a">>), 0)]
    /\ choices = EmptyMap
    /\ ret = NoRet
    /\ study_sessions = EmptyMap
    /\ question_uuids = 2
    /\ \E n \in 0..MaxStatAttempts, reversed \in BOOLEAN :
         \E f \in [1..n -> StatAttempt] :
           LET done == {a \in 1..n : f[a].completed}
               at(a) == submitted_at(a, n, reversed)
           IN /\ quiz_attempts =
                    [a \in 1..n |->
                        [quiz_id |-> f[a].quiz_id, started_at |-> 0,
                         completed_at |->
                             IF f[a].completed THEN Some(at(a)) ELSE None,
                         duration_seconds |->
                             IF f[a].completed THEN Some(at(a)) ELSE None,
                         total_questions |-> 1,
                         correct_answers |-> IF f[a].correct THEN 1 ELSE 0,
                         score_percentage |->
                             IF f[a].completed
                             THEN score_percentage(IF f[a].correct THEN 1 ELSE 0, 1)
                             ELSE 0]]
              /\ question_results =
                    {[id |-> Cardinality({b \in done : at(b) <= at(a)}),
                      attempt_id |-> a,
                      question_id |-> f[a].quiz_id,
                      user_answer |-> IF f[a].correct THEN <<"a">> ELSE <<"b">>,
                      is_correct |-> f[a].correct] : a \in done}

\* one reading of the statistics per behaviour
NextStats ==
    /\ ret = NoRet
    /\ \E quiz_id \in quizzes, tie \in {"ascending", "descending"} :
           get_quiz_stats(quiz_id, tie)

SpecStats == InitStats /\ [][NextStats]_vars

\* ------------------------------------------------- properties of statistics
\* the statistics of a quiz have been read
StatsRead == ret.op = "get_quiz_stats"

\* the completed attempts of the quiz whose statistics were read
StatsOver == completed_attempts(ret.quiz_id)

ScoreOf(a) == quiz_attempts[a].score_percentage

RECURSIVE ScoreSum(_)
ScoreSum(attempts) ==
    IF attempts = {} THEN 0
    ELSE LET a == CHOOSE x \in attempts : TRUE
         IN ScoreOf(a) + ScoreSum(attempts \ {a})

\* C19: the statistics of a quiz are those of its completed attempts alone:
\* their number, the mean and the greatest of their scores; with no completed
\* attempt they are 0, 0, 0 and no recent score, and not an error.
C19_StatsOverCompletedOnly ==
    StatsRead =>
        /\ ret.result.ok
        /\ LET stats == ret.result.value
           IN /\ stats.total_attempts = Cardinality(StatsOver)
              /\ IF StatsOver = {}
                 THEN /\ stats.average_score.num = 0
                      /\ stats.best_score = 0
                      /\ stats.recent_scores = <<>>
                 ELSE /\ stats.average_score.num * Cardinality(StatsOver)
                          = stats.average_score.den * ScoreSum(StatsOver)
                      /\ \E a \in StatsOver : stats.best_score = ScoreOf(a)
                      /\ \A a \in StatsOver : ScoreOf(a) <= stats.best_score

\* the attempts completed after a, and those completed no earlier than a
LaterThan(a) ==
    {b \in StatsOver : quiz_attempts[b].completed_at[1]
                         > quiz_attempts[a].completed_at[1]}

NoEarlierThan(a) ==
    {b \in StatsOver : quiz_attempts[b].completed_at[1]
                         >= quiz_attempts[a].completed_at[1]}

\* recent_scores holds the scores of the min(5, n) latest completed attempts,
\* the latest first
RecentScoresAreLatest ==
    StatsRead =>
        LET recent == ret.result.value.recent_scores
            n == Cardinality(StatsOver)
        IN /\ Len(recent) = IF n < 5 THEN n ELSE 5
           /\ \A i \in 1..Len(recent) :
                 \E a \in StatsOver :
                     /\ recent[i] = ScoreOf(a)
                     /\ Cardinality(LaterThan(a)) <= i - 1
                     /\ i <= Cardinality(NoEarlierThan(a))

\* C20: recentScores holds the scores of the min(5, n) most recently
\* completed attempts, newest first, and bestScore is at least each of them.
C20_RecentScoresAndBest ==
    /\ RecentScoresAreLatest
    /\ StatsRead =>
          \A i \in 1..Len(ret.result.value.recent_scores) :
              ret.result.value.recent_scores[i] <= ret.result.value.best_score

\* ------------------------------------------------- local_db.rs: study sessions
MaxSessions == 2
StudyDecks == 2
MaxStudied == 2

\* start_study_session
start_study_session(deck_id, now) ==
    LET id == fresh_id(DOMAIN study_sessions)
    IN /\ study_sessions' =
              [x \in DOMAIN study_sessions \cup {id} |->
                  IF x = id
                  THEN [deck_id |-> deck_id, started_at |-> now,
                        ended_at |-> None, duration_seconds |-> None,
                        cards_studied |-> 0]
                  ELSE study_sessions[x]]
       /\ ret' = NoRet
       /\ UNCHANGED <<sync_vars, question_uuids, quiz_store>>

\* end_study_session
end_study_session(session_id, cards_studied, now) ==
    IF session_id \notin DOMAIN study_sessions
    THEN /\ ret' = [op |-> "end_study_session", session_id |-> session_id,
                    result |-> Err("Session not found")]
         /\ UNCHANGED <<sync_vars, question_uuids, quiz_store, study_sessions>>
    ELSE LET duration == now - study_sessions[session_id].started_at
             row == [study_sessions[session_id] EXCEPT
                        !.ended_at = Some(now),
                        !.duration_seconds = Some(duration),
                        !.cards_studied = cards_studied]
         IN /\ study_sessions' = [study_sessions EXCEPT ![session_id] = row]
            /\ ret' = [op |-> "end_study_session", session_id |-> session_id,
                       result |-> Ok(row)]
            /\ UNCHANGED <<sync_vars, question_uuids, quiz_store>>

\* variant: every session of the deck
sessions_of_deck(deck_id) ==
    {x \in DOMAIN study_sessions : study_sessions[x].deck_id = deck_id}

\* ... FROM study_sessions WHERE deck_id = ?1 AND ended_at IS NOT NULL
ended_sessions(deck_id) ==
    {x \in DOMAIN study_sessions :
        /\ study_sessions[x].deck_id = deck_id
        /\ study_sessions[x].ended_at # None}

\* the non-NULL values of a column of the selected sessions
RECURSIVE study_column(_, _)
study_column(ids, name) ==
    IF ids = <<>> THEN <<>>
    ELSE LET row == study_sessions[Head(ids)]
             rest == study_column(Tail(ids), name)
         IN CASE name = "cards_studied" -> <<row.cards_studied>> \o rest
              [] name = "duration_seconds" -> row.duration_seconds \o rest
              [] name = "ended_at" -> row.ended_at \o rest

\* SUM() of integers: NULL over no value
sql_sum(v) == IF v = <<>> THEN Null ELSE Integer(sum(v))

\* the row of aggregates of get_deck_study_stats
study_row(deck_id) ==
    LET ids == rows_of(ended_sessions(deck_id))
    IN <<Integer(Len(ids)),
         COALESCE(sql_sum(study_column(ids, "duration_seconds")), Integer(0)),
         COALESCE(sql_sum(study_column(ids, "cards_studied")), Integer(0)),
         sql_max_text(study_column(ids, "ended_at"))>>

\* get_deck_study_stats: the row read as (i32, i32, i32, Option<String>), or
\* the default (0, 0, 0, None) when a column does not convert
get_deck_study_stats(deck_id) ==
    LET row == study_row(deck_id)
        fields == <<get_i32(row[1]), get_i32(row[2]), get_i32(row[3]),
                    get_option_string(row[4])>>
        read == IF \A i \in 1..4 : fields[i].ok
                THEN [i \in 1..4 |-> fields[i].value]
                ELSE <<0, 0, 0, None>>
    IN /\ ret' = [op |-> "get_deck_study_stats", deck_id |-> deck_id,
                  result |-> Ok([total_sessions |-> read[1],
                                 total_study_time_seconds |-> read[2],
                                 total_cards_studied |-> read[3],
                                 last_studied_at |-> read[4]])]
       /\ UNCHANGED <<sync_vars, question_uuids, quiz_store, study_sessions>>

\* ------------------------------------------------- specification: study
DeckCreate ==
    /\ created.deck < StudyDecks
    /\ create_deck_local

SessionStart ==
    /\ Cardinality(DOMAIN study_sessions) < MaxSessions
    /\ \E deck_id \in DOMAIN decks, now \in 0..QuizMaxTime :
           start_study_session(deck_id, now)

SessionEnd ==
    \E session_id \in 1..MaxSessions, cards_studied \in 0..MaxStudied,
       now \in 0..QuizMaxTime :
       end_study_session(session_id, cards_studied, now)

StudyStats == \E deck_id \in DOMAIN decks : get_deck_study_stats(deck_id)

\* the study commands of lib.rs on the decks there are, each under the lock
\* of DbState; the clock of a command reads any time
NextStudy == DeckCreate \/ SessionStart \/ SessionEnd \/ StudyStats

SpecStudy == Init /\ [][NextStudy]_vars

\* ------------------------------------------------- properties of study stats
\* the ended sessions of the deck whose statistics were read
EndedOfDeck ==
    {x \in DOMAIN study_sessions :
        /\ study_sessions[x].deck_id = ret.deck_id
        /\ study_sessions[x].ended_at # None}

RECURSIVE Total(_, _)
Total(ids, name) ==
    IF ids = {} THEN 0
    ELSE LET x == CHOOSE y \in ids : TRUE
         IN (IF name = "time" THEN study_sessions[x].duration_seconds[1]
             ELSE study_sessions[x].cards_studied)
            + Total(ids \ {x}, name)

\* C21: the study statistics of a deck count its ended sessions only: their
\* number, the sum of their durations and the sum of their cards studied;
\* all three are 0, and no error, when the deck has no ended session.
C21_StudyStatsOverEnded ==
    ret.op = "get_deck_study_stats" =>
        /\ ret.result.ok
        /\ ret.result.value.total_sessions = Cardinality(EndedOfDeck)
        /\ ret.result.value.total_study_time_seconds = Total(EndedOfDeck, "time")
        /\ ret.result.value.total_cards_studied = Total(EndedOfDeck, "cards")
        /\ EndedOfDeck = {} =>
              /\ ret.result.value.total_sessions = 0
              /\ ret.result.value.total_study_time_seconds = 0
              /\ ret.result.value.total_cards_studied = 0

\* statistics read of a deck that has an ended session with cards studied
\* and a session still open
C21_Witness ==
    /\ ret.op = "get_deck_study_stats"
    /\ ret.result.value.total_sessions = 1
    /\ ret.result.value.total_cards_studied = 2
    /\ \E x \in DOMAIN study_sessions :
          /\ study_sessions[x].deck_id = ret.deck_id
          /\ study_sessions[x].ended_at = None

\* ------------------------------------------- properties of quiz editing
\* C32: total_questions of an attempt is the number of questions its quiz
\* had when the attempt started, no later command changes it, whatever
\* questions are created or deleted in between, and a submission computes
\* the score from it.
C32_TotalIsSnapshot ==
    [][\A a \in DOMAIN quiz_attempts' :
          IF a \notin DOMAIN quiz_attempts
          THEN quiz_attempts'[a].total_questions =
                   Cardinality(QuestionsOf(quiz_attempts'[a].quiz_id))
          ELSE /\ quiz_attempts'[a].total_questions =
                      quiz_attempts[a].total_questions
               /\ quiz_attempts'[a] # quiz_attempts[a] =>
                      quiz_attempts'[a].score_percentage =
                          score_percentage(quiz_attempts'[a].correct_answers,
                                           quiz_attempts[a].total_questions)]_vars

\* an attempt was just submitted with a correct answer, and its quiz does
\* not have the number of questions it had when the attempt started
C32_Witness ==
    /\ ret.op = "submit_quiz_attempt"
    /\ ret.result.ok
    /\ LET a == ret.attempt_id
       IN /\ quiz_attempts[a].correct_answers >= 1
          /\ quiz_attempts[a].total_questions >= 1
          /\ quiz_attempts[a].total_questions #
                 Cardinality(QuestionsOf(quiz_attempts[a].quiz_id))

\* C37: the questions of a quiz have pairwise distinct positions, after
\* any sequence of create_question, delete_question and reorder_questions,
\* whatever list reorder_questions is given.
C37_PositionsDistinct ==
    \A p \in DOMAIN questions, q \in DOMAIN questions :
        (p # q /\ questions[p].quiz_id = questions[q].quiz_id)
            => questions[p].position # questions[q].position

\* C35: a submit_quiz_attempt that fails because an answer names a question
\* that does not exist leaves the quiz tables as they were: no
\* question_results row of that call stays, and the attempt is as it was.
C35_FailedSubmitChangesNothing ==
    [][(/\ ret'.op = "submit_quiz_attempt"
        /\ ~ret'.result.ok
        /\ ret'.result.value = "Question not found")
       => UNCHANGED quiz_store]_vars

\* C36: correct_answers of every completed attempt is the number of the
\* question_results rows of that attempt that are correct, after any
\* sequence of submissions.
C36_CorrectAnswersCountsRows ==
    \A a \in Completed :
        quiz_attempts[a].correct_answers =
            Cardinality({r \in question_results :
                            r.attempt_id = a /\ r.is_correct})

====
